---- MODULE Spec2Model ----
(***************************************************************************)
(* Distributed web crawler: the coordinator (master_node.py), the crawl    *)
(* worker (crawler_node.py) and the URL normalizers (master_node.py,       *)
(* user.py).  Strings are sequences of one-character strings, so that      *)
(* parsing, re-serialising and stripping are computed, not assumed.        *)
(***************************************************************************)
EXTENDS Integers, Sequences, FiniteSets, TLC

(***************************************************************************)
(* Strings.  Every operator binds its arguments to values before it uses   *)
(* them ({... : s \in {s0}}), so that an argument is computed once.        *)
(***************************************************************************)

The(S) == CHOOSE x \in S : TRUE

\* str.find(c, start): the first index >= start holding c, 0 when there is none
\* (indices are 1-based here, Python's -1 is 0).
Find(s0, c, start0) ==
  The({ IF \E i \in start..Len(s) : s[i] = c
        THEN CHOOSE i \in start..Len(s) : s[i] = c /\ \A j \in start..(i - 1) : s[j] # c
        ELSE 0 : s \in {s0}, start \in {start0} })

\* str.rfind(c): the last index holding c, 0 when there is none.
RFind(s0, c) ==
  The({ IF \E i \in 1..Len(s) : s[i] = c
        THEN CHOOSE i \in 1..Len(s) : s[i] = c /\ \A j \in (i + 1)..Len(s) : s[j] # c
        ELSE 0 : s \in {s0} })

\* c in s
Has(s0, c) == \E s \in {s0} : \E i \in 1..Len(s) : s[i] = c

\* s[i:] and s[:i] of Python, for a 1-based first index / last index.
From(s0, i0) == The({ SubSeq(s, i, Len(s)) : s \in {s0}, i \in {i0} })
Upto(s0, i0) == The({ SubSeq(s, 1, i) : s \in {s0}, i \in {i0} })

\* str.rstrip(cs): drop every trailing character that is in cs.
RStrip(s0, cs) ==
  The({ SubSeq(s, 1, CHOOSE k \in 0..Len(s) :
                       /\ \A j \in (k + 1)..Len(s) : s[j] \in cs
                       /\ (k = 0 \/ s[k] \notin cs)) : s \in {s0} })

\* str.lstrip(cs): drop every leading character that is in cs.
LStrip(s0, cs) ==
  The({ SubSeq(s, CHOOSE k \in 1..(Len(s) + 1) :
                    /\ \A j \in 1..(k - 1) : s[j] \in cs
                    /\ (k = Len(s) + 1 \/ s[k] \notin cs), Len(s)) : s \in {s0} })

\* str.strip(cs)
Strip(s, cs) == RStrip(LStrip(s, cs), cs)

\* str.replace(c, "") for every c of cs: s without any character of cs.
Remove(s, cs) == SelectSeq(s, LAMBDA ch : ch \notin cs)

\* str.startswith(p)
StartsWith(s0, p) == \E s \in {s0} : Len(s) >= Len(p) /\ SubSeq(s, 1, Len(p)) = p

UpperLetters == {"H", "T", "P", "S", "A", "X"}
LowerLetters == {"h", "t", "p", "s", "a", "x", "e", "m", "l", "c", "o", "b", "f"}
Digits == {"1", "8", "0"}

\* str.lower(), on the letters of the model's alphabet.
LowerChar(ch) ==
  CASE ch = "H" -> "h" [] ch = "T" -> "t" [] ch = "P" -> "p"
    [] ch = "S" -> "s" [] ch = "A" -> "a" [] ch = "X" -> "x"
    [] OTHER -> ch
Lower(s0) == The({ [i \in 1..Len(s) |-> LowerChar(s[i])] : s \in {s0} })

(***************************************************************************)
(* urllib.parse, as normalize_url uses it: urlparse(url), then             *)
(* parsed._replace(fragment="").geturl().                                  *)
(***************************************************************************)

\* urllib.parse.scheme_chars: letters, digits and "+-."
scheme_chars == UpperLetters \cup LowerLetters \cup Digits \cup {"+", "-", "."}
IsAlpha(ch) == ch \in UpperLetters \cup LowerLetters

\* The schemes of urllib.parse.uses_netloc / uses_params that the model's
\* alphabet can spell (both lists also hold the empty scheme).
uses_netloc == {<<>>, <<"h","t","t","p">>, <<"h","t","t","p","s">>, <<"f","t","p">>}
uses_params == {<<>>, <<"h","t","t","p">>, <<"h","t","t","p","s">>, <<"f","t","p">>}

\* Leading characters urlsplit strips, and characters it removes anywhere.
WHATWG_C0_CONTROL_OR_SPACE == {" "}
UNSAFE_URL_BYTES_TO_REMOVE == {"\t", "\n", "\r"}

\* _splitnetloc(url, 2): the network location ends at the first of "/?#".
splitnetloc(url) ==
  The({ [netloc |-> SubSeq(url, 3, delim - 1), rest |-> From(url, delim)] :
        delim \in { IF \E i \in 3..Len(url) : url[i] \in {"/", "?", "#"}
                    THEN CHOOSE i \in 3..Len(url) :
                           /\ url[i] \in {"/", "?", "#"}
                           /\ \A j \in 3..(i - 1) : url[j] \notin {"/", "?", "#"}
                    ELSE Len(url) + 1 } })

\* _check_bracketed_host raises unless the bracketed host is an IP literal;
\* "::" and "::1" are the IPv6 literals the model's alphabet can spell.
check_bracketed_host_raises(netloc) ==
  \E afterOpen \in {From(netloc, Find(netloc, "[", 1) + 1)} :
    \E close \in {Find(afterOpen, "]", 1)} :
      (IF close = 0 THEN afterOpen ELSE Upto(afterOpen, close - 1))
         \notin {<<":", ":">>, <<":", ":", "1">>}

\* urlsplit, first part: the scheme is what precedes the first ":" when it
\* starts with a letter and holds scheme characters only; it is lower-cased.
split_scheme(url0) ==
  The({ IF i > 1 /\ IsAlpha(url0[1]) /\ \A j \in 1..(i - 1) : url0[j] \in scheme_chars
        THEN [scheme |-> Lower(Upto(url0, i - 1)), rest |-> From(url0, i + 1)]
        ELSE [scheme |-> <<>>, rest |-> url0] : i \in {Find(url0, ":", 1)} })

\* urlsplit, second part: the network location after "//", and ValueError
\* for a host with unbalanced brackets or a bracketed host that is no IP.
split_netloc(url1) ==
  The({ [netloc |-> nl.netloc, rest |-> nl.rest,
         err |-> \/ Has(nl.netloc, "[") /\ ~Has(nl.netloc, "]")
                 \/ Has(nl.netloc, "]") /\ ~Has(nl.netloc, "[")
                 \/ /\ Has(nl.netloc, "[") /\ Has(nl.netloc, "]")
                    /\ check_bracketed_host_raises(nl.netloc)] :
        nl \in { IF StartsWith(url1, <<"/", "/">>) THEN splitnetloc(url1)
                 ELSE [netloc |-> <<>>, rest |-> url1] } })

\* url.split(sep, 1): [head, tail] around the first sep, tail empty without it
split_once(url, sep) ==
  The({ IF i > 0 THEN [head |-> Upto(url, i - 1), tail |-> From(url, i + 1)]
        ELSE [head |-> url, tail |-> <<>>] : i \in {Find(url, sep, 1)} })

\* urlsplit(url): [err, scheme, netloc, path, query, fragment]; err stands
\* for the ValueError urlsplit raises.  Read from the bottom: the cleaned
\* url, its scheme, its network location, its fragment, its query.
urlsplit(raw) ==
  The({ The({ The({ The({ The({
    [err |-> n.err, scheme |-> s.scheme, netloc |-> n.netloc, path |-> q.head,
     query |-> q.tail, fragment |-> f.tail] :
      q \in {split_once(f.head, "?")} }) :
      f \in {split_once(n.rest, "#")} }) :
      n \in {split_netloc(s.rest)} }) :
      s \in {split_scheme(url0)} }) :
      url0 \in {Remove(LStrip(raw, WHATWG_C0_CONTROL_OR_SPACE), UNSAFE_URL_BYTES_TO_REMOVE)} })

\* _splitparams(url): [path, params]
splitparams(url) ==
  The({ IF i = 0 THEN [path |-> url, params |-> <<>>]
        ELSE [path |-> Upto(url, i - 1), params |-> From(url, i + 1)] :
        i \in { The({ IF slash > 0 THEN Find(url, ";", slash) ELSE Find(url, ";", 1) :
                      slash \in {RFind(url, "/")} }) } })

\* urlparse(url): urlsplit plus the params of the last path segment.
urlparse(raw) ==
  The({ The({ [err |-> sp.err, scheme |-> sp.scheme, netloc |-> sp.netloc,
               path |-> pp.path, params |-> pp.params,
               query |-> sp.query, fragment |-> sp.fragment] :
          pp \in { IF sp.scheme \in uses_params /\ Has(sp.path, ";")
                   THEN splitparams(sp.path)
                   ELSE [path |-> sp.path, params |-> <<>>] } }) :
          sp \in {urlsplit(raw)} })

\* urlunsplit((scheme, netloc, url, query, fragment))
urlunsplit(scheme, netloc, path, query, fragment) ==
  LET authority == \/ netloc # <<>>
                   \/ /\ scheme # <<>>
                      /\ scheme \in uses_netloc
                      /\ ~StartsWith(path, <<"/", "/">>)
      rooted == IF path # <<>> /\ path[1] # "/" THEN <<"/">> \o path ELSE path
  IN (IF scheme # <<>> THEN scheme \o <<":">> ELSE <<>>)
       \o (IF authority THEN <<"/", "/">> \o netloc \o rooted ELSE path)
       \o (IF query # <<>> THEN <<"?">> \o query ELSE <<>>)
       \o (IF fragment # <<>> THEN <<"#">> \o fragment ELSE <<>>)

\* ParseResult.geturl() = urlunparse(self)
geturl(p) ==
  urlunsplit(p.scheme, p.netloc,
             IF p.params # <<>> THEN p.path \o <<";">> \o p.params ELSE p.path,
             p.query, p.fragment)

HttpPrefix == <<"h", "t", "t", "p", ":", "/", "/">>
HttpsPrefix == <<"h", "t", "t", "p", "s", ":", "/", "/">>

\* The scheme as typed: what a parser that does not lower-case would return.
typed_scheme(raw) ==
  The({ The({ IF split_scheme(url0).scheme = <<>> THEN <<>> ELSE Upto(url0, i - 1) :
              i \in {Find(url0, ":", 1)} }) :
        url0 \in {Remove(LStrip(raw, WHATWG_C0_CONTROL_OR_SPACE), UNSAFE_URL_BYTES_TO_REMOVE)} })

\* normalize_url on a parser that keeps the scheme's letter case.
normalize_url_keep_case(url) ==
  The({ IF parsed.err THEN url
        ELSE RStrip((IF parsed.scheme = <<>> THEN HttpPrefix ELSE <<>>)
                      \o geturl([parsed EXCEPT !.fragment = <<>>,
                                               !.scheme = typed_scheme(url)]), {"/"}) :
        parsed \in {urlparse(url)} })

\* normalize_url without the default scheme.
normalize_url_no_default_scheme(url) ==
  The({ IF parsed.err THEN url
        ELSE RStrip(geturl([parsed EXCEPT !.fragment = <<>>]), {"/"}) :
        parsed \in {urlparse(url)} })

\* master_node.normalize_url: lines 168-177
normalize_url(url) ==
  The({ IF parsed.err THEN url
        ELSE RStrip((IF parsed.scheme = <<>> THEN HttpPrefix ELSE <<>>)
                      \o geturl([parsed EXCEPT !.fragment = <<>>]), {"/"}) :
        parsed \in {urlparse(url)} })

\* user.normalize_url: lines 45-60
user_normalize_url(url) ==
  The({ The({ IF parsed.err THEN schemed
              ELSE RStrip(geturl([parsed EXCEPT !.fragment = <<>>]), {"/"}) :
              parsed \in {urlparse(schemed)} }) :
        schemed \in { The({ IF ~StartsWith(unquoted, HttpPrefix)
                               /\ ~StartsWith(unquoted, HttpsPrefix)
                            THEN HttpPrefix \o unquoted ELSE unquoted :
                            unquoted \in {Strip(url, {"\"", "'"})} }) } })

(***************************************************************************)
(* Constants of the program and bounds of the model                        *)
(***************************************************************************)

TASK_TIMEOUT == 180
SWEEP_INTERVAL == 15

\* At most MaxTicks clock steps of the coordinator on its own, MaxLiveTicks
\* of the heartbeat monitors, MaxCrawlTicks of the crawl worker on its own,
\* MaxSystemTicks of the coordinator with a worker; at most MaxBatch URLs
\* per submit call.
MaxTicks == 3
MaxLiveTicks == 1
MaxCrawlTicks == 1
MaxSystemTicks == 2
MaxBeatTicks == 4
MaxErrTicks == 2
MaxRequeueTicks == 2
MaxRobotsTicks == 2
MaxBatch == 1

\* master_node.py: the health pass's sleep and its silence threshold
HEALTH_INTERVAL == 30
FAILED_AFTER == 90
\* the backoff of lines 71, 114 and 134: time.sleep(5)
ERROR_BACKOFF == 5

\* crawler_node.py
CRAWL_DELAY == 1
MAX_RETRIES == 3
HEARTBEAT_INTERVAL == 60
ROBOTS_TTL == 3600
status_forcelist == {429, 500, 502, 503, 504}
backoff_factor == 1
\* urllib3's Retry.DEFAULT_BACKOFF_MAX
BACKOFF_MAX == 120

\* dashboard.py
REFRESH_INTERVAL == 3
INACTIVE_THRESHOLD == 90
MAX_HEARTBEAT_AGE == 300
INITIAL_LOAD_TIME == 15
\* sqs.receive_message(MaxNumberOfMessages=10)
MaxNumberOfMessages == 10

\* At most MaxDeliveries messages are put on the work queue of the crawl
\* workers on their own.
MaxDeliveries == 2

\* The indexer process is started at most MaxRuns times.
MaxRuns == 2

\* The work queue gives a message back to workers that have ended at most
\* MaxRedeliveries items.
MaxRedeliveries == 1

\* The clock advances by one of these numbers of seconds.
TickSteps == {1, TASK_TIMEOUT}
LiveSteps == {FAILED_AFTER, FAILED_AFTER + 1}
CrawlSteps == {ROBOTS_TTL}
BeatSteps == {HEARTBEAT_INTERVAL \div 3}
ErrSteps == {FAILED_AFTER + 1}
RequeueSteps == {SWEEP_INTERVAL, TASK_TIMEOUT + 1}
RobotsSteps == {1, ROBOTS_TTL - 1}

\* The crawl workers; each runs crawler_node.py on a host of its own, whose
\* name is its CRAWLER_ID.
Workers == {"w1", "w2"}

UrlA == HttpPrefix \o <<"a">>
UrlAUpper == <<"H", "T", "T", "P", ":", "/", "/", "a">>
UrlExample == <<"e","x","a","m","p","l","e",".","c","o","m","/","a">>
UrlExampleNorm == HttpPrefix \o UrlExample
UrlAB == HttpPrefix \o <<"a", "/", "b">>

\* The URLs on the work queue of the crawl workers on their own.
CrawlUrls == {UrlA, UrlAB}

\* The raw URLs callers submit.
RawUrls == {UrlA, UrlAUpper, UrlExample}

RECURSIVE SeqsUpTo(_, _)
SeqsUpTo(S, n) ==
  IF n = 0 THEN {<<>>}
  ELSE LET shorter == SeqsUpTo(S, n - 1)
       IN shorter \cup {Append(q, x) : q \in shorter, x \in S}

\* The argument lists of one add_urls_to_queue call, over the raw URLs S.
Batches(S) == SeqsUpTo(S, MaxBatch) \ {<<>>}

\* The threads that call add_urls_to_queue.
Submitters == {"main", "second"}

\* What a server answers a page request with: 200 with one of two bodies,
\* a status of the force list, another error status.  Status 0 stands for
\* no answer: a connection error or a timeout.
Page1 == [status |-> 200, text |-> "p1"]
Page2 == [status |-> 200, text |-> "p2"]
Unavailable == [status |-> 503, text |-> ""]
NotFound == [status |-> 404, text |-> ""]
NoAnswer == [status |-> 0, text |-> ""]
Responses == {Page1, Page2, Unavailable, NotFound, NoAnswer}


\* The rule lines and the Crawl-delay for user-agent * of the robots.txt
\* files the origins serve: an empty file, and "Disallow: /b" with
\* "Crawl-delay: 5".
RobotsFiles ==
  { [rules |-> <<>>, delay |-> 0],
    [rules |-> <<[path |-> <<"/", "b">>, allowance |-> FALSE]>>, delay |-> 5] }

\* What session.get(robots_url) does: it raises, it answers with a status
\* other than 200, or it answers 200 with a file.
RobotsError == [kind |-> "error", rules |-> <<>>, delay |-> 0]
RobotsMissing == [kind |-> "status", rules |-> <<>>, delay |-> 0]
RobotsOutcomes ==
  {RobotsError, RobotsMissing}
    \cup { [kind |-> "ok", rules |-> f.rules, delay |-> f.delay] : f \in RobotsFiles }

\* The world at its widest, and the narrower worlds of some specifications.
World ==
  [urls |-> RawUrls, crawl |-> CrawlUrls, robots |-> RobotsOutcomes,
   responses |-> Responses]


(***************************************************************************)
(* State                                                                   *)
(***************************************************************************)

VARIABLES
  now,            \* time.time(), in seconds
  ticks,          \* clock steps taken so far
  visited_urls,   \* MasterNode.visited_urls
  task_status,    \* MasterNode.task_status: url -> [timestamp, status]
  task_order,     \* insertion order of task_status's keys
  stats,          \* MasterNode.stats
  crawler_queue,  \* the SQS work queue: how many messages of each
                  \* [body, origin, state] there are; deleted ones are kept
  sub,            \* per caller of add_urls_to_queue: position and locals
  submit_log,     \* what each processed argument was normalized to
  sweep,          \* the check_task_timeouts thread: position and locals
  started,        \* MasterNode.start has started the monitoring threads
  norm,           \* the normalizer harness
  heartbeat_queue,\* the SQS crawler heartbeat queue: a set of [body, state]
  crawler,        \* per crawl worker: position, Crawler fields and locals
  bucket,         \* the S3 bucket: key -> [Body, Metadata]
  crawler_status, \* MasterNode.crawler_status: crawler_id -> time received
  crawler_order,  \* insertion order of crawler_status's keys
  monitor,        \* the monitor_heartbeats thread: position and batch
  health,         \* the monitor_crawler_health thread: position and locals
  indexer,        \* the SQS indexer heartbeat queue, a set of [body, state],
                  \* and the monitor_indexer_heartbeats thread: position,
                  \* batch and the indexer ids it has logged
  ingest,         \* indexer.py's ingest_from_s3: position, its locals, the
                  \* lines of indexed_files.log and the committed index
  dash_status,    \* dashboard.crawler_status: crawler_id -> record
  dash_entries,   \* its entries in insertion order, "" where one was deleted
  dash_monitor,   \* dashboard.monitor_crawler_heartbeats: position and batch
  dash_display,   \* dashboard.display_dashboard: position and locals
  node_health,    \* dashboard.node_health
  env             \* the world: the raw URLs callers submit, the outcomes of
                  \* robots.txt requests, the answers to page requests

coordVars == <<visited_urls, task_status, task_order, stats, sub, submit_log, sweep, started>>
crawlVars == <<crawler, bucket>>
liveVars == <<crawler_status, crawler_order, monitor, health, indexer, ingest>>
dashVars == <<dash_status, dash_entries, dash_monitor, dash_display, node_health>>
restVars == <<heartbeat_queue, crawlVars, liveVars, dashVars>>
vars == <<now, ticks, crawler_queue, coordVars, norm, restVars, env>>

\* dict[key] = value
Put(f, k, v) == [x \in DOMAIN f \cup {k} |-> IF x = k THEN v ELSE f[x]]

\* The number of copies of x in the bag b, and b with one more / one less.
Copies(b, x) == IF x \in DOMAIN b THEN b[x] ELSE 0
BagPut(b, x) == Put(b, x, Copies(b, x) + 1)
BagTake(b, x) == [y \in {z \in DOMAIN b : z # x \/ b[z] > 1} |->
                    IF y = x THEN b[y] - 1 ELSE b[y]]

\* The number of messages in the bag b.
RECURSIVE BagSize(_)
BagSize(b) ==
  IF DOMAIN b = {} THEN 0
  ELSE LET x == CHOOSE y \in DOMAIN b : TRUE
       IN b[x] + BagSize([y \in DOMAIN b \ {x} |-> b[y]])

\* indexer.py between two runs of ingest_from_s3: the number of runs so far,
\* the lines of LOG_FILE and the documents of the committed index (url ->
\* content); the writer holds nothing.
IngestIdle(runs, log, index) ==
  [pc |-> "idle", runs |-> runs, already |-> {}, todo |-> {}, pending |-> <<>>,
   indexed_count |-> 0, log |-> log, index |-> index]

\* The locals of monitor_crawler_health while it sleeps until wake.
HealthIdle(wake) ==
  [pc |-> "sleep", wake |-> wake, now |-> 0, active |-> 0, failed |-> 0,
   size |-> 0, idx |-> 0, flagged |-> {}]

\* The locals of display_dashboard while it sleeps until wake.
DisplayIdle(wake) ==
  [pc |-> "sleep", wake |-> wake, now |-> 0, active |-> 0, inactive |-> 0,
   size |-> 0, pos |-> 0]

NoMessage == [body |-> <<>>, origin |-> "", state |-> ""]
NoRobotsLog == [base |-> <<>>, kind |-> ""]

\* Crawler.__init__ (lines 36-45) and poll_and_crawl before line 227; the
\* locals of one item (message, url, html, the Retry state of the page
\* request, the upload attempt) are at their initial values between items.
CrawlerInit ==
  [pc |-> "init", last_heartbeat_time |-> 0,
   delay |-> CRAWL_DELAY, crawled_count |-> 0, failed_count |-> 0, uploaded_count |-> 0,
   robots_cache |-> <<>>, robots_logged |-> NoRobotsLog,
   message |-> NoMessage, url |-> <<>>, html |-> "",
   retries |-> MAX_RETRIES, history |-> <<>>, backoff |-> <<>>, attempt |-> 0,
   links |-> {}]

InitQueues == heartbeat_queue = {}

InitCrawlers ==
  /\ crawler = [w \in Workers |-> CrawlerInit]
  /\ bucket = <<>>

\* dashboard.py lines 39-55; the dashboard is not running yet
InitDashboard ==
  /\ dash_status = <<>>
  /\ dash_entries = <<>>
  /\ dash_monitor = [pc |-> "off", batch |-> {}]
  /\ dash_display = [DisplayIdle(0) EXCEPT !.pc = "off"]
  /\ node_health = [active_crawlers |-> 0, inactive_crawlers |-> 0]

\* The locals of a thread outside add_urls_to_queue; accepted counts the
\* URLs of the call at hand that passed the test of line 37.
SubIdle == [pc |-> "idle", urls |-> <<>>, url |-> <<>>, accepted |-> 0]

InitCoordinator ==
  /\ now = 0
  /\ ticks = 0
  /\ visited_urls = {}
  /\ task_status = <<>>
  /\ task_order = <<>>
  /\ stats = [total_urls |-> 0, requeued |-> 0, active_crawlers |-> 0, failed_crawlers |-> 0]
  /\ crawler_queue = <<>>
  /\ sub = [t \in Submitters |-> SubIdle]
  /\ submit_log = {}
  /\ sweep = [pc |-> "sleep", wake |-> 0, now |-> 0, todo |-> <<>>]
  /\ started = FALSE
  /\ crawler_status = <<>>
  /\ crawler_order = <<>>
  /\ monitor = [pc |-> "recv", batch |-> {}, wake |-> 0]
  /\ health = HealthIdle(0)
  /\ indexer = [queue |-> {}, pc |-> "recv", batch |-> {}, logged |-> {}]
  /\ ingest = IngestIdle(0, {}, <<>>)
  /\ InitQueues
  /\ InitCrawlers
  /\ InitDashboard

NormIdle == norm = [pc |-> "off", in |-> <<>>, once |-> <<>>, twice |-> <<>>, user |-> <<>>]

\* time passes
Advance(steps, most) ==
  /\ ticks < most
  /\ \E d \in steps : now' = now + d
  /\ ticks' = ticks + 1
  /\ UNCHANGED <<crawler_queue, coordVars, norm, restVars, env>>

Tick == Advance(TickSteps, MaxTicks)
TickLive == Advance(LiveSteps, MaxLiveTicks)
TickCrawl == Advance(CrawlSteps, MaxCrawlTicks)
TickSystem == Advance(TickSteps, MaxSystemTicks)

\* sqs.send_message(QueueUrl=CRAWLER_QUEUE_URL, MessageBody={"url": url})
SendMessage(q, url, origin) ==
  BagPut(q, [body |-> url, origin |-> origin, state |-> "visible"])

(***************************************************************************)
(* MasterNode.add_urls_to_queue, one step per statement that reads or      *)
(* writes shared state                                                     *)
(***************************************************************************)

\* a caller enters add_urls_to_queue(urls)
SubmitCall(t) ==
  /\ sub[t].pc = "idle"
  /\ \E urls \in Batches(env.urls) :
       sub' = [sub EXCEPT ![t] = [pc |-> "next", urls |-> urls, url |-> <<>>,
                                  accepted |-> 0]]
  /\ UNCHANGED <<now, ticks, crawler_queue, visited_urls, task_status, task_order,
                 stats, submit_log, sweep, started, norm, restVars, env>>

\* lines 33-37: take the next url, normalize it, test the dedup set
SubmitCheck(t) ==
  /\ sub[t].pc = "next"
  /\ sub[t].urls # <<>>
  /\ LET raw == Head(sub[t].urls)
         url == normalize_url(raw)
         fresh == url \notin visited_urls
     IN /\ sub' = [sub EXCEPT ![t].urls = Tail(@),
                              ![t].url = IF fresh THEN url ELSE <<>>,
                              ![t].accepted = IF fresh THEN @ + 1 ELSE @,
                              ![t].pc = IF fresh THEN "add" ELSE "next"]
        /\ submit_log' = submit_log \cup {[raw |-> raw, url |-> url, accepted |-> fresh]}
  /\ UNCHANGED <<now, ticks, crawler_queue, visited_urls, task_status, task_order,
                 stats, sweep, started, norm, restVars, env>>

\* What add_urls_to_queue returns after it has accepted n URLs: the
\* function (lines 32-47) has no return statement, it returns None.
add_urls_to_queue_returns(n) == [kind |-> "None"]

\* line 33: the list is exhausted, the call returns
SubmitReturn(t) ==
  /\ sub[t].pc = "next"
  /\ sub[t].urls = <<>>
  /\ sub' = [sub EXCEPT ![t] = SubIdle]
  /\ UNCHANGED <<now, ticks, crawler_queue, visited_urls, task_status, task_order,
                 stats, submit_log, sweep, started, norm, restVars, env>>

\* line 38: self.visited_urls.add(url)
SubmitAdd(t) ==
  /\ sub[t].pc = "add"
  /\ visited_urls' = visited_urls \cup {sub[t].url}
  /\ sub' = [sub EXCEPT ![t].pc = "send"]
  /\ UNCHANGED <<now, ticks, crawler_queue, task_status, task_order, stats,
                 submit_log, sweep, started, norm, restVars, env>>

\* line 42: sqs.send_message succeeds; lines 43-44: the task record, the count
SubmitSend(t) ==
  /\ sub[t].pc = "send"
  /\ crawler_queue' = SendMessage(crawler_queue, sub[t].url, "submit")
  /\ task_status' = Put(task_status, sub[t].url, [timestamp |-> now, status |-> "queued"])
  /\ task_order' = IF sub[t].url \in DOMAIN task_status THEN task_order
                   ELSE Append(task_order, sub[t].url)
  /\ stats' = [stats EXCEPT !.total_urls = @ + 1]
  /\ sub' = [sub EXCEPT ![t].pc = "next", ![t].url = <<>>]
  /\ UNCHANGED <<now, ticks, visited_urls, submit_log, sweep, started, norm, restVars, env>>

\* A failed send after which the task record is written all the same.
SubmitSendFailsButQueued(t) ==
  /\ sub[t].pc = "send"
  /\ task_status' = Put(task_status, sub[t].url, [timestamp |-> now, status |-> "queued"])
  /\ task_order' = IF sub[t].url \in DOMAIN task_status THEN task_order
                   ELSE Append(task_order, sub[t].url)
  /\ sub' = [sub EXCEPT ![t].pc = "next", ![t].url = <<>>]
  /\ UNCHANGED <<now, ticks, crawler_queue, visited_urls, stats, submit_log, sweep,
                 started, norm, restVars, env>>

\* line 42 raises: lines 46-47 log the failure and go on with the next url
SubmitSendFails(t) ==
  /\ sub[t].pc = "send"
  /\ sub' = [sub EXCEPT ![t].pc = "next", ![t].url = <<>>]
  /\ UNCHANGED <<now, ticks, crawler_queue, visited_urls, task_status, task_order,
                 stats, submit_log, sweep, started, norm, restVars, env>>

Submit(t) ==
  \/ SubmitCall(t)
  \/ SubmitCheck(t)
  \/ SubmitReturn(t)
  \/ SubmitAdd(t)
  \/ SubmitSend(t)
  \/ SubmitSendFails(t)

\* MasterNode.start, lines 145-152: add_urls_to_queue(seed_urls) has returned;
\* the monitoring threads start, check_task_timeouts with its first sleep.
StartThreads ==
  /\ ~started
  /\ sub["main"].pc = "idle"
  /\ started' = TRUE
  /\ sweep' = [sweep EXCEPT !.wake = now + SWEEP_INTERVAL]
  /\ health' = HealthIdle(now + HEALTH_INTERVAL)
  /\ UNCHANGED <<now, ticks, crawler_queue, visited_urls, task_status, task_order,
                 stats, sub, submit_log, norm, heartbeat_queue, crawlVars,
                 crawler_status, crawler_order, monitor, indexer, ingest, dashVars, env>>

(***************************************************************************)
(* MasterNode.check_task_timeouts                                          *)
(***************************************************************************)

\* A staleness test that also fires at exactly TASK_TIMEOUT seconds.
IsStaleInclusive(meta, t) == meta.status = "queued" /\ t - meta.timestamp >= TASK_TIMEOUT

\* lines 102-103: the record is queued and older than TASK_TIMEOUT
IsStale(meta, t) == meta.status = "queued" /\ t - meta.timestamp > TASK_TIMEOUT

\* lines 98-101: the sleep is over; read the clock and snapshot the task map
SweepBegin ==
  /\ started
  /\ sweep.pc = "sleep"
  /\ now >= sweep.wake
  /\ sweep' = [sweep EXCEPT !.pc = "scan", !.now = now, !.todo = task_order]
  /\ UNCHANGED <<now, ticks, crawler_queue, visited_urls, task_status, task_order,
                 stats, sub, submit_log, started, norm, restVars, env>>

\* lines 102-103 false: the next item of the snapshot is not stale
SweepSkip ==
  /\ sweep.pc = "scan"
  /\ sweep.todo # <<>>
  /\ ~IsStale(task_status[Head(sweep.todo)], sweep.now)
  /\ sweep' = [sweep EXCEPT !.todo = Tail(@)]
  /\ UNCHANGED <<now, ticks, crawler_queue, visited_urls, task_status, task_order,
                 stats, sub, submit_log, started, norm, restVars, env>>

\* A sweep that resends an item once and passes it by from then on.
SweepRequeueOnce ==
  /\ sweep.pc = "scan"
  /\ sweep.todo # <<>>
  /\ LET url == Head(sweep.todo)
     IN /\ IsStale(task_status[url], sweep.now)
        /\ IF stats.requeued = 0
           THEN /\ crawler_queue' = SendMessage(crawler_queue, url, "sweep")
                /\ task_status' = [task_status EXCEPT ![url].timestamp = now]
                /\ stats' = [stats EXCEPT !.requeued = @ + 1]
           ELSE UNCHANGED <<crawler_queue, task_status, stats>>
  /\ sweep' = [sweep EXCEPT !.todo = Tail(@)]
  /\ UNCHANGED <<now, ticks, visited_urls, task_order, sub, submit_log, started, norm, restVars, env>>

\* lines 104-109: the next item is stale and the resend succeeds
SweepRequeue ==
  /\ sweep.pc = "scan"
  /\ sweep.todo # <<>>
  /\ LET url == Head(sweep.todo)
     IN /\ IsStale(task_status[url], sweep.now)
        /\ crawler_queue' = SendMessage(crawler_queue, url, "sweep")
        /\ task_status' = [task_status EXCEPT ![url].timestamp = now]
        /\ stats' = [stats EXCEPT !.requeued = @ + 1]
  /\ sweep' = [sweep EXCEPT !.todo = Tail(@)]
  /\ UNCHANGED <<now, ticks, visited_urls, task_order, sub, submit_log, started, norm, restVars, env>>

\* A failed resend after which the item's timestamp is set all the same.
SweepRequeueFailsStamped ==
  /\ sweep.pc = "scan"
  /\ sweep.todo # <<>>
  /\ IsStale(task_status[Head(sweep.todo)], sweep.now)
  /\ task_status' = [task_status EXCEPT ![Head(sweep.todo)].timestamp = now]
  /\ sweep' = [sweep EXCEPT !.todo = Tail(@)]
  /\ UNCHANGED <<now, ticks, crawler_queue, visited_urls, task_order,
                 stats, sub, submit_log, started, norm, restVars, env>>

\* A failed resend that is counted as a requeue.
SweepRequeueFailsCounted ==
  /\ sweep.pc = "scan"
  /\ sweep.todo # <<>>
  /\ IsStale(task_status[Head(sweep.todo)], sweep.now)
  /\ stats' = [stats EXCEPT !.requeued = @ + 1]
  /\ sweep' = [sweep EXCEPT !.todo = Tail(@)]
  /\ UNCHANGED <<now, ticks, crawler_queue, visited_urls, task_status, task_order,
                 sub, submit_log, started, norm, restVars, env>>

\* lines 107, 110-111: the next item is stale and the resend raises
SweepRequeueFails ==
  /\ sweep.pc = "scan"
  /\ sweep.todo # <<>>
  /\ IsStale(task_status[Head(sweep.todo)], sweep.now)
  /\ sweep' = [sweep EXCEPT !.todo = Tail(@)]
  /\ UNCHANGED <<now, ticks, crawler_queue, visited_urls, task_status, task_order,
                 stats, sub, submit_log, started, norm, restVars, env>>

\* the for loop ends; line 98: sleep again
SweepEnd ==
  /\ sweep.pc = "scan"
  /\ sweep.todo = <<>>
  /\ sweep' = [sweep EXCEPT !.pc = "sleep", !.wake = now + SWEEP_INTERVAL, !.now = 0]
  /\ UNCHANGED <<now, ticks, crawler_queue, visited_urls, task_status, task_order,
                 stats, sub, submit_log, started, norm, restVars, env>>

Sweep == SweepBegin \/ SweepSkip \/ SweepRequeue \/ SweepRequeueFails \/ SweepEnd

(***************************************************************************)
(* MasterNode.monitor_heartbeats and MasterNode.monitor_crawler_health      *)
(***************************************************************************)

\* The bodies of the messages a receive_message call can return.
Visible(q) == {m.body : m \in {x \in q : x.state = "visible"}}

\* sqs.receive_message(MaxNumberOfMessages=10): as many of the visible
\* messages as the call may return.  The messages of a batch are processed
\* one by one, at any later times, so a message that a smaller batch would
\* leave to the next call is processed at the same times here.
HeartbeatBatches(q) ==
  {B \in SUBSET Visible(q) :
     Cardinality(B) = IF Cardinality(Visible(q)) < MaxNumberOfMessages
                      THEN Cardinality(Visible(q)) ELSE MaxNumberOfMessages}

\* The queue once the batch B is received, and once the message b is deleted.
Received(q, B) ==
  {IF m.body \in B THEN [m EXCEPT !.state = "inflight"] ELSE m : m \in q}
Deleted(q, b) == {m \in q : m.body # b}

\* lines 52-55: a batch of heartbeats is received
MonitorReceive ==
  /\ started
  /\ monitor.pc = "recv"
  /\ now >= monitor.wake
  /\ \E B \in HeartbeatBatches(heartbeat_queue) \ {{}} :
       /\ heartbeat_queue' = Received(heartbeat_queue, B)
       /\ monitor' = [monitor EXCEPT !.pc = "proc", !.batch = B]
  /\ UNCHANGED <<now, ticks, crawler_queue, coordVars, norm, crawlVars,
                 crawler_status, crawler_order, health, indexer, ingest, dashVars, env>>

\* json.loads(msg["Body"]) and data[key], lines 58-59 and 82-83: the body
\* is a JSON object with that key; if not, an exception is raised.
Parses(b, key) == key \in DOMAIN b

\* A monitor without the try of line 57: a message that does not parse ends
\* the batch, and nothing of it is deleted.
MonitorProcessAborting ==
  /\ monitor.pc = "proc"
  /\ \E b \in monitor.batch :
       IF Parses(b, "crawler_id")
       THEN /\ crawler_status' = Put(crawler_status, b.crawler_id, now)
            /\ crawler_order' = IF b.crawler_id \in DOMAIN crawler_status THEN crawler_order
                                ELSE Append(crawler_order, b.crawler_id)
            /\ heartbeat_queue' = Deleted(heartbeat_queue, b)
            /\ monitor' = [monitor EXCEPT
                             !.pc = IF monitor.batch = {b} THEN "recv" ELSE "proc",
                             !.batch = monitor.batch \ {b}]
       ELSE /\ UNCHANGED <<crawler_status, crawler_order, heartbeat_queue>>
            /\ monitor' = [monitor EXCEPT !.pc = "recv", !.batch = {},
                                          !.wake = now + ERROR_BACKOFF]
  /\ UNCHANGED <<now, ticks, crawler_queue, coordVars, norm, crawlVars, health, indexer, ingest, dashVars, env>>

\* lines 56-68: the next message of the batch: the sender's time of receipt
\* is recorded, unless the body does not parse; the message is deleted
MonitorProcess ==
  /\ monitor.pc = "proc"
  /\ \E b \in monitor.batch :
       /\ crawler_status' = IF Parses(b, "crawler_id")
                            THEN Put(crawler_status, b.crawler_id, now)
                            ELSE crawler_status
       /\ crawler_order' = IF Parses(b, "crawler_id") /\ b.crawler_id \notin DOMAIN crawler_status
                           THEN Append(crawler_order, b.crawler_id)
                           ELSE crawler_order
       /\ heartbeat_queue' = Deleted(heartbeat_queue, b)
       /\ monitor' = [monitor EXCEPT
                        !.pc = IF monitor.batch = {b} THEN "recv" ELSE "proc",
                        !.batch = monitor.batch \ {b}]
  /\ UNCHANGED <<now, ticks, crawler_queue, coordVars, norm, crawlVars, health, indexer, ingest, dashVars, env>>

Monitor == MonitorReceive \/ MonitorProcess

\* The indexer processes.
Indexers == {"i1"}

\* indexer.py, send_indexer_heartbeat, lines 88-97: the indexer i sends a
\* heartbeat to the indexer heartbeat queue
IndexerHeartbeat(i) ==
  /\ \E m \in {[body |-> [indexer_id |-> i, timestamp |-> now, status |-> "alive",
                          indexed |-> 0],
                 state |-> "visible"]} :
       /\ \A x \in indexer.queue : x.body # m.body
       /\ indexer' = [indexer EXCEPT !.queue = @ \cup {m}]
  /\ UNCHANGED <<now, ticks, crawler_queue, coordVars, norm, heartbeat_queue, crawlVars,
                 crawler_status, crawler_order, monitor, health, ingest, dashVars, env>>

\* Bodies that are no heartbeat: text that is not JSON, and a JSON object
\* without crawler_id or indexer_id.
MalformedBodies == {[raw |-> "{"], [status |-> "alive"]}

\* A message that is no heartbeat reaches the crawler heartbeat queue or
\* the indexer heartbeat queue.
HeartbeatMalformed ==
  /\ \E b \in MalformedBodies :
       \/ /\ \A x \in heartbeat_queue : x.body # b
          /\ heartbeat_queue' = heartbeat_queue \cup {[body |-> b, state |-> "visible"]}
          /\ indexer' = indexer
       \/ /\ \A x \in indexer.queue : x.body # b
          /\ indexer' = [indexer EXCEPT !.queue = @ \cup {[body |-> b, state |-> "visible"]}]
          /\ heartbeat_queue' = heartbeat_queue
  /\ UNCHANGED <<now, ticks, crawler_queue, coordVars, norm, crawlVars,
                 crawler_status, crawler_order, monitor, health, ingest, dashVars, env>>

\* monitor_indexer_heartbeats, lines 76-79: a batch is received
IndexerMonitorReceive ==
  /\ started
  /\ indexer.pc = "recv"
  /\ \E B \in HeartbeatBatches(indexer.queue) \ {{}} :
       indexer' = [indexer EXCEPT !.queue = Received(@, B), !.pc = "proc", !.batch = B]
  /\ UNCHANGED <<now, ticks, crawler_queue, coordVars, norm, heartbeat_queue, crawlVars,
                 crawler_status, crawler_order, monitor, health, ingest, dashVars, env>>

\* lines 80-91: the next message of the batch: the sender is logged, unless
\* the body does not parse; the message is deleted.  Nothing is recorded.
IndexerMonitorProcess ==
  /\ indexer.pc = "proc"
  /\ \E b \in indexer.batch :
       indexer' = [indexer EXCEPT
                     !.logged = IF Parses(b, "indexer_id") THEN @ \cup {b.indexer_id} ELSE @,
                     !.queue = Deleted(@, b),
                     !.pc = IF indexer.batch = {b} THEN "recv" ELSE "proc",
                     !.batch = @ \ {b}]
  /\ UNCHANGED <<now, ticks, crawler_queue, coordVars, norm, heartbeat_queue, crawlVars,
                 crawler_status, crawler_order, monitor, health, ingest, dashVars, env>>

IndexerMonitor == IndexerMonitorReceive \/ IndexerMonitorProcess

\* indexer.py, ingest_from_s3, lines 116-121: the process starts a run:
\* load_indexed_keys reads the log, list_objects_v2 lists the bucket and
\* ix.writer() opens a writer.  At most MaxRuns runs are started.
IngestBegin ==
  /\ ingest.pc = "idle"
  /\ ingest.runs < MaxRuns
  /\ ingest' = [ingest EXCEPT !.pc = "loop", !.runs = @ + 1, !.already = ingest.log,
                               !.todo = DOMAIN bucket]
  /\ UNCHANGED <<now, ticks, crawler_queue, coordVars, norm, heartbeat_queue, crawlVars,
                 crawler_status, crawler_order, monitor, health, indexer, dashVars, env>>

\* lines 120-121 raise: the listing or the writer fails; lines 146-147 log it
IngestBeginFails ==
  /\ ingest.pc = "idle"
  /\ ingest.runs < MaxRuns
  /\ ingest' = [ingest EXCEPT !.runs = @ + 1]
  /\ UNCHANGED <<now, ticks, crawler_queue, coordVars, norm, heartbeat_queue, crawlVars,
                 crawler_status, crawler_order, monitor, health, indexer, dashVars, env>>

\* lines 122-126: the next key is in the log that was loaded
IngestSkip ==
  /\ ingest.pc = "loop"
  /\ \E key \in ingest.todo \cap ingest.already :
       ingest' = [ingest EXCEPT !.todo = @ \ {key}]
  /\ UNCHANGED <<now, ticks, crawler_queue, coordVars, norm, heartbeat_queue, crawlVars,
                 crawler_status, crawler_order, monitor, health, indexer, dashVars, env>>

\* lines 128-137: the object of the next key is read and handed to the
\* writer under its URL (update_document replaces a document of that URL);
\* the count goes up and mark_as_indexed appends the key to the log
IngestDocument ==
  /\ ingest.pc = "loop"
  /\ \E key \in ingest.todo \ ingest.already :
       ingest' = [ingest EXCEPT
                    !.pending = Put(@, bucket[key].Metadata, bucket[key].Body),
                    !.indexed_count = @ + 1,
                    !.log = @ \cup {key},
                    !.todo = @ \ {key}]
  /\ UNCHANGED <<now, ticks, crawler_queue, coordVars, norm, heartbeat_queue, crawlVars,
                 crawler_status, crawler_order, monitor, health, indexer, dashVars, env>>

\* lines 129-133 raise: lines 138-139 log it and the loop goes on
IngestDocumentFails ==
  /\ ingest.pc = "loop"
  /\ \E key \in ingest.todo \ ingest.already :
       ingest' = [ingest EXCEPT !.todo = @ \ {key}]
  /\ UNCHANGED <<now, ticks, crawler_queue, coordVars, norm, heartbeat_queue, crawlVars,
                 crawler_status, crawler_order, monitor, health, indexer, dashVars, env>>

\* The index with the documents docs written to it.
Committed(index, docs) ==
  [u \in DOMAIN index \cup DOMAIN docs |-> IF u \in DOMAIN docs THEN docs[u] ELSE index[u]]

\* lines 141-143: the loop has ended and writer.commit() returns: the
\* documents of the writer are in the index; a heartbeat is sent, or its
\* send fails (lines 99-100)
IngestCommit ==
  /\ ingest.pc = "loop"
  /\ ingest.todo = {}
  /\ ingest' = IngestIdle(ingest.runs, ingest.log, Committed(ingest.index, ingest.pending))
  /\ \E sent \in BOOLEAN, i \in Indexers :
       indexer' = IF sent
                  THEN [indexer EXCEPT !.queue = @ \cup
                          {[body |-> [indexer_id |-> i, timestamp |-> now, status |-> "alive",
                                      indexed |-> ingest.indexed_count],
                            state |-> "visible"]}]
                  ELSE indexer
  /\ UNCHANGED <<now, ticks, crawler_queue, coordVars, norm, heartbeat_queue, crawlVars,
                 crawler_status, crawler_order, monitor, health, dashVars, env>>

\* line 141 raises: lines 146-147 log it; the writer's documents are not in
\* the index.  The log file keeps what was appended to it.
IngestCommitFails ==
  /\ ingest.pc = "loop"
  /\ ingest.todo = {}
  /\ ingest' = IngestIdle(ingest.runs, ingest.log, ingest.index)
  /\ UNCHANGED <<now, ticks, crawler_queue, coordVars, norm, heartbeat_queue, crawlVars,
                 crawler_status, crawler_order, monitor, health, indexer, dashVars, env>>

\* KeyboardInterrupt inside the loop: it is no Exception, so lines 138 and
\* 146 do not catch it; the process ends (lines 248-253) with nothing
\* committed.
IngestInterrupt ==
  /\ ingest.pc = "loop"
  /\ ingest' = IngestIdle(ingest.runs, ingest.log, ingest.index)
  /\ UNCHANGED <<now, ticks, crawler_queue, coordVars, norm, heartbeat_queue, crawlVars,
                 crawler_status, crawler_order, monitor, health, indexer, dashVars, env>>

Ingest ==
  \/ IngestBegin
  \/ IngestBeginFails
  \/ IngestSkip
  \/ IngestDocument
  \/ IngestDocumentFails
  \/ IngestCommit
  \/ IngestCommitFails
  \/ IngestInterrupt

\* lines 52-54 raise: lines 69-71 log the error and sleep ERROR_BACKOFF
\* seconds; the loop goes on
MonitorReceiveFails ==
  /\ started
  /\ monitor.pc = "recv"
  /\ now >= monitor.wake
  /\ monitor' = [monitor EXCEPT !.wake = now + ERROR_BACKOFF]
  /\ UNCHANGED <<now, ticks, crawler_queue, coordVars, norm, heartbeat_queue, crawlVars,
                 crawler_status, crawler_order, health, indexer, ingest, dashVars, env>>

\* A health thread whose error is not caught: the thread ends.
HealthHalts(t) == [HealthIdle(0) EXCEPT !.pc = "halt"]

\* lines 132-134 and 118: after an error at time t the health thread sleeps
\* ERROR_BACKOFF seconds, then HEALTH_INTERVAL seconds
HealthAfterError(t) == HealthIdle(t + ERROR_BACKOFF + HEALTH_INTERVAL)

\* A silence test that already fails a worker at exactly FAILED_AFTER seconds.
IsActiveExclusive(t, ts) == t - ts < FAILED_AFTER

\* line 124: now - ts <= 90
IsActive(t, ts) == t - ts <= FAILED_AFTER

\* lines 118-123: the sleep is over; read the clock, start iterating over
\* crawler_status.items()
HealthBegin ==
  /\ started
  /\ health.pc = "sleep"
  /\ now >= health.wake
  /\ health' = [HealthIdle(0) EXCEPT !.pc = "loop", !.now = now,
                                     !.size = Len(crawler_order)]
  /\ UNCHANGED <<now, ticks, crawler_queue, coordVars, norm, heartbeat_queue,
                 crawlVars, crawler_status, crawler_order, monitor, indexer, ingest, dashVars, env>>

\* lines 123-128: the next item is counted as active or as failed, and a
\* failed one is logged
HealthItem ==
  /\ health.pc = "loop"
  /\ Len(crawler_order) = health.size
  /\ health.idx < health.size
  /\ LET cid == crawler_order[health.idx + 1]
         alive == IsActive(health.now, crawler_status[cid])
     IN health' = [health EXCEPT !.idx = @ + 1,
                                 !.active = IF alive THEN @ + 1 ELSE @,
                                 !.failed = IF alive THEN @ ELSE @ + 1,
                                 !.flagged = IF alive THEN @ ELSE @ \cup {cid}]
  /\ UNCHANGED <<now, ticks, crawler_queue, coordVars, norm, heartbeat_queue,
                 crawlVars, crawler_status, crawler_order, monitor, indexer, ingest, dashVars, env>>

\* line 123: the dictionary changed size during iteration: RuntimeError;
\* lines 132-134 log it and sleep 5 seconds, line 118 sleeps again
HealthRaises ==
  /\ health.pc = "loop"
  /\ Len(crawler_order) # health.size
  /\ health' = HealthAfterError(now)
  /\ UNCHANGED <<now, ticks, crawler_queue, coordVars, norm, heartbeat_queue,
                 crawlVars, crawler_status, crawler_order, monitor, indexer, ingest, dashVars, env>>

\* lines 129-131: the loop is over, the counts are published; line 118
HealthPublish ==
  /\ health.pc = "loop"
  /\ Len(crawler_order) = health.size
  /\ health.idx = health.size
  /\ stats' = [stats EXCEPT !.active_crawlers = health.active,
                            !.failed_crawlers = health.failed]
  /\ health' = HealthIdle(now + HEALTH_INTERVAL)
  /\ UNCHANGED <<now, ticks, crawler_queue, visited_urls, task_status, task_order,
                 sub, submit_log, sweep, started, norm, heartbeat_queue,
                 crawlVars, crawler_status, crawler_order, monitor, indexer, ingest, dashVars, env>>

Health == HealthBegin \/ HealthItem \/ HealthRaises \/ HealthPublish

(***************************************************************************)
(* The dashboard: monitor_crawler_heartbeats and update_node_health         *)
(***************************************************************************)

\* The command line's --all: old heartbeats are kept.
args_all == FALSE

\* lines 518-534: the dashboard starts: heartbeats are collected from now
\* on, and display_dashboard starts after INITIAL_LOAD_TIME seconds
DashStart ==
  /\ dash_monitor.pc = "off"
  /\ dash_monitor' = [pc |-> "recv", batch |-> {}]
  /\ dash_display' = DisplayIdle(now + INITIAL_LOAD_TIME)
  /\ UNCHANGED <<now, ticks, crawler_queue, coordVars, norm, heartbeat_queue,
                 crawlVars, liveVars, dash_status, dash_entries, node_health, env>>

\* lines 187-192: a batch of heartbeats is received, or none
DashReceive ==
  /\ dash_display.pc # "exit"
  /\ dash_monitor.pc = "recv"
  /\ \E B \in HeartbeatBatches(heartbeat_queue) :
       /\ heartbeat_queue' = Received(heartbeat_queue, B)
       /\ dash_monitor' = [pc |-> IF B = {} THEN "cleanup" ELSE "proc", batch |-> B]
  /\ UNCHANGED <<now, ticks, crawler_queue, coordVars, norm, crawlVars, liveVars,
                 dash_status, dash_entries, dash_display, node_health, env>>

\* lines 197-229: the next message of the batch replaces the sender's record
\* with the heartbeat's own timestamp and counters, and is deleted
DashProcess ==
  /\ dash_display.pc # "exit"
  /\ dash_monitor.pc = "proc"
  /\ \E b \in dash_monitor.batch :
       /\ dash_status' = Put(dash_status, b.crawler_id,
                             [timestamp |-> b.timestamp, crawled |-> b.crawled,
                              uploaded |-> b.uploaded, failed |-> b.failed,
                              status |-> ""])
       /\ dash_entries' = IF b.crawler_id \in DOMAIN dash_status THEN dash_entries
                          ELSE Append(dash_entries, b.crawler_id)
       /\ heartbeat_queue' = Deleted(heartbeat_queue, b)
       /\ dash_monitor' = [pc |-> IF dash_monitor.batch = {b} THEN "cleanup" ELSE "proc",
                           batch |-> dash_monitor.batch \ {b}]
  /\ UNCHANGED <<now, ticks, crawler_queue, coordVars, norm, crawlVars, liveVars,
                 dash_display, node_health, env>>

\* lines 308-317: records older than MAX_HEARTBEAT_AGE are deleted
DashCleanup ==
  /\ dash_display.pc # "exit"
  /\ dash_monitor.pc = "cleanup"
  /\ LET expired == IF args_all THEN {}
                    ELSE {cid \in DOMAIN dash_status :
                            now - dash_status[cid].timestamp > MAX_HEARTBEAT_AGE}
     IN /\ dash_status' = [cid \in DOMAIN dash_status \ expired |-> dash_status[cid]]
        /\ dash_entries' = [i \in DOMAIN dash_entries |->
                              IF dash_entries[i] \in expired THEN "" ELSE dash_entries[i]]
  /\ dash_monitor' = [pc |-> "recv", batch |-> {}]
  /\ UNCHANGED <<now, ticks, crawler_queue, coordVars, norm, heartbeat_queue,
                 crawlVars, liveVars, dash_display, node_health, env>>

\* The index of the first entry after pos that is not deleted, 0 if none.
NextEntry(entries, pos) ==
  IF \E i \in (pos + 1)..Len(entries) : entries[i] # ""
  THEN CHOOSE i \in (pos + 1)..Len(entries) :
         /\ entries[i] # ""
         /\ \A j \in (pos + 1)..(i - 1) : entries[j] = ""
  ELSE 0

\* lines 358-362: the refresh sleep is over; read the clock, start iterating
\* over crawler_status.items()
DashHealthBegin ==
  /\ dash_display.pc = "sleep"
  /\ now >= dash_display.wake
  /\ dash_display' = [DisplayIdle(0) EXCEPT !.pc = "loop", !.now = now,
                                            !.size = Cardinality(DOMAIN dash_status)]
  /\ UNCHANGED <<now, ticks, crawler_queue, coordVars, norm, heartbeat_queue,
                 crawlVars, liveVars, dash_status, dash_entries, dash_monitor, node_health, env>>

\* lines 362-372: the next record is counted and marked ACTIVE or INACTIVE
DashHealthItem ==
  /\ dash_display.pc = "loop"
  /\ Cardinality(DOMAIN dash_status) = dash_display.size
  /\ NextEntry(dash_entries, dash_display.pos) # 0
  /\ LET i == NextEntry(dash_entries, dash_display.pos)
         cid == dash_entries[i]
         alive == dash_display.now - dash_status[cid].timestamp <= INACTIVE_THRESHOLD
     IN /\ dash_status' = [dash_status EXCEPT ![cid].status =
                             IF alive THEN "ACTIVE" ELSE "INACTIVE"]
        /\ dash_display' = [dash_display EXCEPT !.pos = i,
                              !.active = IF alive THEN @ + 1 ELSE @,
                              !.inactive = IF alive THEN @ ELSE @ + 1]
  /\ UNCHANGED <<now, ticks, crawler_queue, coordVars, norm, heartbeat_queue,
                 crawlVars, liveVars, dash_entries, dash_monitor, node_health, env>>

\* line 362: the dictionary changed size during iteration: RuntimeError,
\* which display_dashboard does not catch: the dashboard exits
DashHealthRaises ==
  /\ dash_display.pc = "loop"
  /\ Cardinality(DOMAIN dash_status) # dash_display.size
  /\ dash_display' = [DisplayIdle(0) EXCEPT !.pc = "exit"]
  /\ UNCHANGED <<now, ticks, crawler_queue, coordVars, norm, heartbeat_queue,
                 crawlVars, liveVars, dash_status, dash_entries, dash_monitor, node_health, env>>

\* line 362: the loop is over
DashHealthLoopEnd ==
  /\ dash_display.pc = "loop"
  /\ Cardinality(DOMAIN dash_status) = dash_display.size
  /\ NextEntry(dash_entries, dash_display.pos) = 0
  /\ dash_display' = [dash_display EXCEPT !.pc = "publish"]
  /\ UNCHANGED <<now, ticks, crawler_queue, coordVars, norm, heartbeat_queue,
                 crawlVars, liveVars, dash_status, dash_entries, dash_monitor, node_health, env>>

\* lines 389-390: the counts are published; the display sleeps
DashHealthPublish ==
  /\ dash_display.pc = "publish"
  /\ node_health' = [active_crawlers |-> dash_display.active,
                     inactive_crawlers |-> dash_display.inactive]
  /\ dash_display' = DisplayIdle(now + REFRESH_INTERVAL)
  /\ UNCHANGED <<now, ticks, crawler_queue, coordVars, norm, heartbeat_queue,
                 crawlVars, liveVars, dash_status, dash_entries, dash_monitor, env>>

Dashboard ==
  \/ DashReceive \/ DashProcess \/ DashCleanup
  \/ DashHealthBegin \/ DashHealthItem \/ DashHealthRaises
  \/ DashHealthLoopEnd \/ DashHealthPublish

(***************************************************************************)
(* The crawl worker: crawler_node.py                                        *)
(***************************************************************************)

\* The number of messages ever sent to the work queue with this body and
\* origin.
Sent(q, url, origin) ==
  Copies(q, [body |-> url, origin |-> origin, state |-> "visible"])
    + Copies(q, [body |-> url, origin |-> origin, state |-> "inflight"])
    + Copies(q, [body |-> url, origin |-> origin, state |-> "deleted"])

\* A message reaches the work queue of the workers: the coordinator's send
\* of master_node.py line 40 the first time, its resend of line 107 after.
Deliver ==
  /\ BagSize(crawler_queue) < MaxDeliveries
  /\ \E url \in env.crawl :
       crawler_queue' = SendMessage(crawler_queue, url,
                          IF Sent(crawler_queue, url, "submit") = 0 THEN "submit"
                          ELSE "sweep")
  /\ UNCHANGED <<now, ticks, coordVars, norm, restVars, env>>

\* The work queue with the message m received (in flight), and deleted.
Taken(q, m) == BagPut(BagTake(q, m), [m EXCEPT !.state = "inflight"])
Removed(q, m) == BagPut(BagTake(q, m), [m EXCEPT !.state = "deleted"])

\* send_heartbeat, lines 199-206: the heartbeat of worker w
Heartbeat(w) ==
  [crawler_id |-> w, status |-> "alive", timestamp |-> now,
   crawled |-> crawler[w].crawled_count, uploaded |-> crawler[w].uploaded_count,
   failed |-> crawler[w].failed_count]

\* send_heartbeat, lines 209-218: one of the MAX_RETRIES sends succeeds, or
\* all of them fail and nothing is sent
SendHeartbeat(q, w, sent) ==
  IF sent THEN q \cup {[body |-> Heartbeat(w), state |-> "visible"]} ELSE q

\* lines 226-232: the worker starts and sends its first heartbeat
CrawlerStart(w) ==
  /\ crawler[w].pc = "init"
  /\ \E sent \in BOOLEAN : heartbeat_queue' = SendHeartbeat(heartbeat_queue, w, sent)
  /\ crawler' = [crawler EXCEPT ![w].pc = "poll", ![w].last_heartbeat_time = now]
  /\ UNCHANGED <<now, ticks, crawler_queue, coordVars, norm, bucket, liveVars, dashVars, env>>

\* line 238
HeartbeatDue(w) == now - crawler[w].last_heartbeat_time >= HEARTBEAT_INTERVAL

\* lines 237-240: the loop starts over and a heartbeat is due
CrawlerHeartbeat(w) ==
  /\ crawler[w].pc = "poll"
  /\ HeartbeatDue(w)
  /\ \E sent \in BOOLEAN : heartbeat_queue' = SendHeartbeat(heartbeat_queue, w, sent)
  /\ crawler' = [crawler EXCEPT ![w].last_heartbeat_time = now]
  /\ UNCHANGED <<now, ticks, crawler_queue, coordVars, norm, bucket, liveVars, dashVars, env>>

\* lines 243-267: receive_message returns one message, whose body gives the
\* URL.  A call that returns nothing leads back to line 237 and changes
\* nothing; it can come between any two steps of a worker that polls.
CrawlerReceive(w) ==
  /\ crawler[w].pc = "poll"
  /\ \E m \in DOMAIN crawler_queue :
       /\ m.state = "visible"
       /\ crawler_queue' = Taken(crawler_queue, m)
       /\ crawler' = [crawler EXCEPT
            ![w].message = [m EXCEPT !.state = "inflight"],
            ![w].url = m.body,
            ![w].pc = IF m.body = <<>> THEN "delete" ELSE "robots"]
  /\ UNCHANGED <<now, ticks, coordVars, norm, heartbeat_queue, bucket, liveVars, dashVars, env>>

\* urllib.robotparser.RobotFileParser(): allow_all and disallow_all are
\* unset, nothing is parsed; delay 0 stands for no Crawl-delay.
NewParser ==
  [allow_all |-> FALSE, disallow_all |-> FALSE, last_checked |-> FALSE,
   rules |-> <<>>, delay |-> 0]

\* A get_robots_parser that caches a fresh parser, which allows nothing,
\* when robots.txt cannot be had.
ParserForDenying(outcome) ==
  IF outcome.kind = "ok"
  THEN [NewParser EXCEPT !.last_checked = TRUE, !.rules = outcome.rules,
                         !.delay = outcome.delay]
  ELSE NewParser

\* lines 77-89 and 98-99: the parser get_robots_parser builds
ParserFor(outcome) ==
  IF outcome.kind = "ok"
  THEN [NewParser EXCEPT !.last_checked = TRUE, !.rules = outcome.rules,
                         !.delay = outcome.delay]
  ELSE [NewParser EXCEPT !.allow_all = TRUE]

\* lines 63-64: base_url; err stands for urlparse's ValueError
base_url(url) ==
  The({ [err |-> p.err, base |-> p.scheme \o <<":", "/", "/">> \o p.netloc] :
        p \in {urlparse(url)} })

\* RobotFileParser.can_fetch matches the rules against the URL without its
\* scheme and network location, "/" when that is empty.
RobotsTarget(url) ==
  The({ IF t = <<>> THEN <<"/">> ELSE t :
        t \in { The({ urlunsplit(<<>>, <<>>,
                        IF p.params # <<>> THEN p.path \o <<";">> \o p.params ELSE p.path,
                        p.query, p.fragment) : p \in {urlparse(url)} }) } })

\* RobotFileParser.can_fetch("*", url): the first rule line that applies
\* decides; without one the URL is allowed.
ParserCanFetch(parser, url) ==
  IF parser.disallow_all THEN FALSE
  ELSE IF parser.allow_all THEN TRUE
  ELSE IF ~parser.last_checked THEN FALSE
  ELSE \E target \in {RobotsTarget(url)} :
         LET hits == {i \in 1..Len(parser.rules) :
                        \/ parser.rules[i].path = <<"*">>
                        \/ StartsWith(target, parser.rules[i].path)}
         IN hits = {} \/ parser.rules[CHOOSE i \in hits : \A j \in hits : i <= j].allowance

\* RobotFileParser.crawl_delay("*"), 0 for None
ParserCrawlDelay(parser) == IF parser.last_checked THEN parser.delay ELSE 0

\* A can_fetch that takes over every Crawl-delay, a smaller one too.
AfterRobotsAdopting(c, parser) ==
  IF ~ParserCanFetch(parser, c.url)
  THEN [c EXCEPT !.failed_count = @ + 1, !.pc = "delete"]
  ELSE [c EXCEPT !.delay = IF ParserCrawlDelay(parser) # 0 THEN ParserCrawlDelay(parser)
                           ELSE @,
                 !.pc = "get"]

\* Crawler.can_fetch, lines 106-119, and fetch_page, lines 124-125, on the
\* parser get_robots_parser returned: a disallowed URL counts as failed and
\* the item ends; else the delay is raised to the Crawl-delay and the page
\* is requested.
AfterRobots(c, parser) ==
  IF ~ParserCanFetch(parser, c.url)
  THEN [c EXCEPT !.failed_count = @ + 1, !.pc = "delete"]
  ELSE [c EXCEPT !.delay = IF ParserCrawlDelay(parser) > @ THEN ParserCrawlDelay(parser)
                           ELSE @,
                 !.pc = "get"]

\* A cache test that still takes an entry of exactly ROBOTS_TTL seconds.
CacheHitInclusive(c) ==
  \E b \in {base_url(c.url).base} :
    /\ b \in DOMAIN c.robots_cache
    /\ now - c.robots_cache[b].timestamp <= ROBOTS_TTL

\* lines 67-70: the origin has a cached parser younger than ROBOTS_TTL
CacheHit(c) ==
  \E b \in {base_url(c.url).base} :
    /\ b \in DOMAIN c.robots_cache
    /\ now - c.robots_cache[b].timestamp < ROBOTS_TTL

\* lines 63-70: the cached parser is used
CrawlerRobotsCached(w) ==
  /\ crawler[w].pc = "robots"
  /\ ~base_url(crawler[w].url).err
  /\ CacheHit(crawler[w])
  /\ crawler' = [crawler EXCEPT ![w] =
       AfterRobots(@, @.robots_cache[base_url(@.url).base].parser)]
  /\ UNCHANGED <<now, ticks, crawler_queue, coordVars, norm, heartbeat_queue, bucket,
                 liveVars, dashVars, env>>

\* lines 73-101: robots.txt is fetched, the parser is cached with the time;
\* a URL urlparse rejects raises out of fetch_page to line 277
CrawlerRobotsFetch(w) ==
  /\ crawler[w].pc = "robots"
  /\ base_url(crawler[w].url).err \/ ~CacheHit(crawler[w])
  /\ IF base_url(crawler[w].url).err
     THEN crawler' = [crawler EXCEPT ![w].failed_count = @ + 1, ![w].pc = "delete"]
     ELSE \E outcome \in env.robots :
            LET b == base_url(crawler[w].url).base
                parser == ParserFor(outcome)
            IN crawler' = [crawler EXCEPT ![w] =
                 AfterRobots([@ EXCEPT
                    !.robots_cache = Put(@, b, [parser |-> parser, timestamp |-> now]),
                    !.robots_logged = [base |-> b, kind |-> outcome.kind]], parser)]
  /\ UNCHANGED <<now, ticks, crawler_queue, coordVars, norm, heartbeat_queue, bucket,
                 liveVars, dashVars, env>>

\* Retry(total=3, status_forcelist=..., allowed_methods=["GET"]): a GET is
\* retried after a status of the force list and after a connection error
Retryable(r) == r.status \in status_forcelist \/ r.status = 0

\* A backoff that waits backoff_factor seconds before the first retry too.
get_backoff_time_from_first(history) ==
  IF backoff_factor * 2 ^ (Len(history) - 1) < BACKOFF_MAX
  THEN backoff_factor * 2 ^ (Len(history) - 1) ELSE BACKOFF_MAX

\* Retry.get_backoff_time with backoff_factor=1: no wait after the first
\* error, backoff_factor * 2^(n-1) seconds after the n-th in a row
get_backoff_time(history) ==
  IF Len(history) <= 1 THEN 0
  ELSE IF backoff_factor * 2 ^ (Len(history) - 1) < BACKOFF_MAX
       THEN backoff_factor * 2 ^ (Len(history) - 1) ELSE BACKOFF_MAX

\* A fetch that makes one request more before it gives up.
AfterResponseOneMore(c, r) ==
  The({ IF Retryable(r)
        THEN IF c.retries < 0
             THEN [c EXCEPT !.history = history, !.failed_count = @ + 1, !.pc = "delete"]
             ELSE [c EXCEPT !.history = history, !.retries = @ - 1,
                            !.backoff = Append(@, get_backoff_time(history))]
        ELSE IF r.status = 200
             THEN [c EXCEPT !.history = history, !.html = r.text,
                            !.crawled_count = IF r.text # "" THEN @ + 1 ELSE @,
                            !.pc = IF r.text # "" THEN "upload" ELSE "delete"]
             ELSE [c EXCEPT !.history = history, !.failed_count = @ + 1, !.pc = "delete"] :
        history \in {Append(c.history, r.status)} })

\* A fetch that gives up without counting the failure.
AfterResponseUncounted(c, r) ==
  The({ IF Retryable(r)
        THEN IF c.retries = 0
             THEN [c EXCEPT !.history = history, !.pc = "delete"]
             ELSE [c EXCEPT !.history = history, !.retries = @ - 1,
                            !.backoff = Append(@, get_backoff_time(history))]
        ELSE IF r.status = 200
             THEN [c EXCEPT !.history = history, !.html = r.text,
                            !.crawled_count = IF r.text # "" THEN @ + 1 ELSE @,
                            !.pc = IF r.text # "" THEN "upload" ELSE "delete"]
             ELSE [c EXCEPT !.history = history, !.failed_count = @ + 1, !.pc = "delete"] :
        history \in {Append(c.history, r.status)} })

\* fetch_page lines 129-136 and poll_and_crawl lines 271-272 on one answer
\* to the request: a retryable answer is retried after the backoff until
\* the retries are used up; 200 gives the page, counted as crawled when it
\* is not empty; everything else counts as failed.
AfterResponse(c, r) ==
  The({ IF Retryable(r)
        THEN IF c.retries = 0
             THEN [c EXCEPT !.history = history, !.failed_count = @ + 1, !.pc = "delete"]
             ELSE [c EXCEPT !.history = history, !.retries = @ - 1,
                            !.backoff = Append(@, get_backoff_time(history))]
        ELSE IF r.status = 200
             THEN [c EXCEPT !.history = history, !.html = r.text,
                            !.crawled_count = IF r.text # "" THEN @ + 1 ELSE @,
                            !.pc = IF r.text # "" THEN "upload" ELSE "delete"]
             ELSE [c EXCEPT !.history = history, !.failed_count = @ + 1, !.pc = "delete"] :
        history \in {Append(c.history, r.status)} })

\* line 129: one request of session.get(url) is answered
CrawlerRequest(w) ==
  /\ crawler[w].pc = "get"
  /\ \E r \in env.responses : crawler' = [crawler EXCEPT ![w] = AfterResponse(@, r)]
  /\ UNCHANGED <<now, ticks, crawler_queue, coordVars, norm, heartbeat_queue, bucket,
                 liveVars, dashVars, env>>

\* hashlib.md5(url.encode()).hexdigest(): the digest of s, taken to be free
\* of collisions
md5_hexdigest(s) == [md5 |-> s]

\* A key made of the page's content instead of its URL.
FilenameOfContent(html, url) == <<md5_hexdigest(html), ".html">>

\* upload_to_s3(html, url), line 168: the object's key
Filename(html, url) == <<md5_hexdigest(url), ".html">>

\* BeautifulSoup(html).find_all('a', href=True), lines 152-155: the href
\* values of the page's anchors in document order.  Page "p1" has a
\* root-relative link and a link to another site; page "p2" has a relative
\* link, a fragment, an empty href, an https link and a root-relative link
\* twice.
Anchors(html) ==
  IF html = "p1"
  THEN << <<"/", "b">>, HttpPrefix \o <<"o","t","h","e","r",".","c","o","m","/","c">> >>
  ELSE IF html = "p2"
  THEN << <<"b">>, <<"#", "t">>, <<>>,
          HttpsPrefix \o <<"e","x","a","m","p","l","e",".","c","o","m","/","b">>,
          <<"/", "b">>, <<"/", "b">> >>
  ELSE <<>>

\* extract_links(html, base_url), lines 153-160: an href that starts with
\* "http" is kept as it is, one that starts with "/" is appended to the
\* page's URL without its trailing slashes, every other one is left out.
extract_links(html, page_url) ==
  The({ {hrefs[i] : i \in {j \in DOMAIN hrefs : StartsWith(hrefs[j], <<"h","t","t","p">>)}}
          \cup {RStrip(page_url, {"/"}) \o hrefs[i] :
                  i \in {j \in DOMAIN hrefs :
                           /\ ~StartsWith(hrefs[j], <<"h","t","t","p">>)
                           /\ StartsWith(hrefs[j], <<"/">>)}} :
        hrefs \in {Anchors(html)} })

\* A pipeline that ends the item when the upload has failed for good: no
\* link extraction.
CrawlerPutAborting(w) ==
  /\ crawler[w].pc = "upload"
  /\ \E ok \in BOOLEAN :
       IF ok
       THEN /\ bucket' = Put(bucket, Filename(crawler[w].html, crawler[w].url),
                             [Body |-> crawler[w].html, Metadata |-> crawler[w].url])
            /\ crawler' = [crawler EXCEPT
                 ![w].uploaded_count = @ + 1,
                 ![w].links = extract_links(crawler[w].html, crawler[w].url),
                 ![w].pc = "delete"]
       ELSE /\ bucket' = bucket
            /\ crawler' = IF crawler[w].attempt < MAX_RETRIES - 1
                          THEN [crawler EXCEPT ![w].attempt = @ + 1]
                          ELSE [crawler EXCEPT ![w].failed_count = @ + 1,
                                               ![w].pc = "delete"]
  /\ UNCHANGED <<now, ticks, crawler_queue, coordVars, norm, heartbeat_queue,
                 liveVars, dashVars, env>>

\* An upload that counts every put_object call, returned or not.
CrawlerPutCountingCalls(w) ==
  /\ crawler[w].pc = "upload"
  /\ \E ok \in BOOLEAN :
       IF ok
       THEN /\ bucket' = Put(bucket, Filename(crawler[w].html, crawler[w].url),
                             [Body |-> crawler[w].html, Metadata |-> crawler[w].url])
            /\ crawler' = [crawler EXCEPT
                 ![w].uploaded_count = @ + 1,
                 ![w].links = extract_links(crawler[w].html, crawler[w].url),
                 ![w].pc = "delete"]
       ELSE /\ bucket' = bucket
            /\ crawler' = IF crawler[w].attempt < MAX_RETRIES - 1
                          THEN [crawler EXCEPT ![w].attempt = @ + 1,
                                               ![w].uploaded_count = @ + 1]
                          ELSE [crawler EXCEPT
                                  ![w].uploaded_count = @ + 1,
                                  ![w].failed_count = @ + 1,
                                  ![w].links = extract_links(crawler[w].html, crawler[w].url),
                                  ![w].pc = "delete"]
  /\ UNCHANGED <<now, ticks, crawler_queue, coordVars, norm, heartbeat_queue,
                 liveVars, dashVars, env>>

\* lines 171-194 and 274: one put_object call; it stores the page and the
\* upload is counted, or it raises ClientError and is retried until attempt
\* MAX_RETRIES - 1, after which the failure is counted.  extract_links
\* follows in both cases; its result is only logged.
CrawlerPut(w) ==
  /\ crawler[w].pc = "upload"
  /\ \E ok \in BOOLEAN :
       IF ok
       THEN /\ bucket' = Put(bucket, Filename(crawler[w].html, crawler[w].url),
                             [Body |-> crawler[w].html, Metadata |-> crawler[w].url])
            /\ crawler' = [crawler EXCEPT
                 ![w].uploaded_count = @ + 1,
                 ![w].links = extract_links(crawler[w].html, crawler[w].url),
                 ![w].pc = "delete"]
       ELSE /\ bucket' = bucket
            /\ crawler' = IF crawler[w].attempt < MAX_RETRIES - 1
                          THEN [crawler EXCEPT ![w].attempt = @ + 1]
                          ELSE [crawler EXCEPT
                                  ![w].failed_count = @ + 1,
                                  ![w].links = extract_links(crawler[w].html, crawler[w].url),
                                  ![w].pc = "delete"]
  /\ UNCHANGED <<now, ticks, crawler_queue, coordVars, norm, heartbeat_queue,
                 liveVars, dashVars, env>>

\* A worker that reports the end of an item to the coordinator, which drops
\* the item's record.
CrawlerDeleteReporting(w) ==
  /\ crawler[w].pc = "delete"
  /\ crawler_queue' = Removed(crawler_queue, crawler[w].message)
  /\ task_status' = [u \in DOMAIN task_status \ {crawler[w].url} |-> task_status[u]]
  /\ task_order' = SelectSeq(task_order, LAMBDA u : u # crawler[w].url)
  /\ crawler' = [crawler EXCEPT ![w] =
       [@ EXCEPT !.pc = "poll", !.message = NoMessage, !.url = <<>>, !.html = "",
                 !.retries = MAX_RETRIES, !.history = <<>>, !.backoff = <<>>,
                 !.attempt = 0, !.links = {}]]
  /\ UNCHANGED <<now, ticks, visited_urls, stats, sub, submit_log, sweep, started,
                 norm, heartbeat_queue, bucket, liveVars, dashVars, env>>

\* line 282: the message is deleted; the loop starts over
CrawlerDelete(w) ==
  /\ crawler[w].pc = "delete"
  /\ crawler_queue' = Removed(crawler_queue, crawler[w].message)
  /\ crawler' = [crawler EXCEPT ![w] =
       [@ EXCEPT !.pc = "poll", !.message = NoMessage, !.url = <<>>, !.html = "",
                 !.retries = MAX_RETRIES, !.history = <<>>, !.backoff = <<>>,
                 !.attempt = 0, !.links = {}]]
  /\ UNCHANGED <<now, ticks, coordVars, norm, heartbeat_queue, bucket, liveVars, dashVars, env>>

\* line 282 raises: the delete_message of the finally clause fails; the
\* exception leaves the for loop, lines 289-291 log it and sleep, and the
\* loop starts over.  The message stays in flight.
CrawlerDeleteFails(w) ==
  /\ crawler[w].pc = "delete"
  /\ crawler' = [crawler EXCEPT ![w] =
       [@ EXCEPT !.pc = "poll", !.message = NoMessage, !.url = <<>>, !.html = "",
                 !.retries = MAX_RETRIES, !.history = <<>>, !.backoff = <<>>,
                 !.attempt = 0, !.links = {}]]
  /\ UNCHANGED <<now, ticks, crawler_queue, coordVars, norm, heartbeat_queue, bucket,
                 liveVars, dashVars, env>>

\* The work queue makes a message visible again that was received and not
\* deleted, once its visibility timeout is over and no worker is at work on
\* it.  Workers that have ended more than MaxRedeliveries items get no
\* message back.
Redeliver ==
  /\ \A w \in Workers : crawler[w].crawled_count + crawler[w].failed_count <= MaxRedeliveries
  /\ \E m \in DOMAIN crawler_queue :
       /\ m.state = "inflight"
       /\ \A w \in Workers : crawler[w].message # m
       /\ crawler_queue' = BagPut(BagTake(crawler_queue, m), [m EXCEPT !.state = "visible"])
  /\ UNCHANGED <<now, ticks, coordVars, norm, restVars, env>>

\* KeyboardInterrupt in poll_and_crawl's loop.  It is no Exception, so
\* lines 133, 191 and 277 do not catch it: while an item is at hand the
\* finally clause deletes the message (line 282); then lines 284-287 send
\* the final heartbeat and leave the loop.
CrawlerInterrupt(w) ==
  /\ crawler[w].pc \in {"poll", "robots", "get", "upload", "delete"}
  /\ crawler_queue' = IF crawler[w].pc = "poll" THEN crawler_queue
                      ELSE Removed(crawler_queue, crawler[w].message)
  /\ \E sent \in BOOLEAN : heartbeat_queue' = SendHeartbeat(heartbeat_queue, w, sent)
  /\ crawler' = [crawler EXCEPT ![w].pc = "exit"]
  /\ UNCHANGED <<now, ticks, coordVars, norm, bucket, liveVars, dashVars, env>>

\* One item from the queue to its deletion.
Pipeline(w) ==
  \/ CrawlerReceive(w)
  \/ CrawlerRobotsCached(w)
  \/ CrawlerRobotsFetch(w)
  \/ CrawlerRequest(w)
  \/ CrawlerPut(w)
  \/ CrawlerDelete(w)

Crawl(w) == CrawlerStart(w) \/ CrawlerHeartbeat(w) \/ Pipeline(w)

(***************************************************************************)
(* The normalizer on its own: master_node's __main__ normalizes every seed *)
(* (line 190) and add_urls_to_queue normalizes it again (line 35); the     *)
(* user client normalizes the same input with its own function.            *)
(***************************************************************************)

MaxBodyLen == 2

NormAlphabet == {"a", "/", "#", "?", ";", ":", "[", "\""}
NormPrefixes == {<<>>, HttpPrefix, <<"H", "T", "T", "P", ":", "/", "/">>,
                 <<"h", "t", "t", "p", ":">>, <<"x", ":">>}
NormInputs == {p \o b : p \in NormPrefixes, b \in SeqsUpTo(NormAlphabet, MaxBodyLen)}
                \cup {UrlExample}

InitNorm ==
  /\ InitCoordinator
  /\ env = World
  /\ norm \in {[pc |-> "start", in |-> i, once |-> <<>>, twice |-> <<>>, user |-> <<>>] :
                 i \in NormInputs}

\* master_node.py line 190
NormalizeOnce ==
  /\ norm.pc = "start"
  /\ norm' = [norm EXCEPT !.pc = "once", !.once = normalize_url(norm.in)]
  /\ UNCHANGED <<now, ticks, crawler_queue, coordVars, restVars, env>>

\* master_node.py line 35, on the seed line 190 normalized
NormalizeTwice ==
  /\ norm.pc = "once"
  /\ norm' = [norm EXCEPT !.pc = "twice", !.twice = normalize_url(norm.once)]
  /\ UNCHANGED <<now, ticks, crawler_queue, coordVars, restVars, env>>

\* user.py line 75, on the same input
NormalizeUser ==
  /\ norm.pc = "twice"
  /\ norm' = [norm EXCEPT !.pc = "done", !.user = user_normalize_url(norm.in)]
  /\ UNCHANGED <<now, ticks, crawler_queue, coordVars, restVars, env>>

NextNorm == NormalizeOnce \/ NormalizeTwice \/ NormalizeUser
SpecNorm == InitNorm /\ [][NextNorm]_vars

(***************************************************************************)
(* The coordinator as MasterNode.start runs it: the seeds are submitted,    *)
(* then the monitoring threads start; the clock runs throughout.           *)
(***************************************************************************)

\* add_urls_to_queue(seed_urls), before the threads start
SubmitSeeds == ~started /\ Submit("main")

Init == InitCoordinator /\ NormIdle /\ env = World
Next == SubmitSeeds \/ StartThreads \/ Sweep \/ Tick
Spec == Init /\ [][Next]_vars

\* user.py, send_urls_to_master lines 73-95, for one URL of the list: the
\* URL is normalized by user.py's normalize_url and sent to the work queue
\* of the crawl workers with depth, depth_limit and restrict_domain; the
\* send succeeds or raises.  At most MaxDeliveries such messages are sent.
Whitespace == {" ", "\t", "\n"}

UserSend ==
  /\ BagSize([m \in {x \in DOMAIN crawler_queue : x.origin = "user"} |-> crawler_queue[m]])
       < MaxDeliveries
  /\ \E raw \in env.urls, ok \in BOOLEAN :
       crawler_queue' =
         The({ IF url = <<>> \/ ~ok THEN crawler_queue
               ELSE SendMessage(crawler_queue, url, "user") :
               url \in {user_normalize_url(Strip(raw, Whitespace))} })
  /\ UNCHANGED <<now, ticks, coordVars, norm, restVars, env>>

\* The coordinator submits its seeds while a user runs user.py.
NextUser == SubmitSeeds \/ UserSend
SpecUser == Init /\ [][NextUser]_vars

\* One caller of add_urls_to_queue on its own, calling it again and again.
NextSubmit == Submit("main")
SpecSubmit == Init /\ [][NextSubmit]_vars

\* Two threads call add_urls_to_queue at the same time.
NextConcurrent == \E t \in Submitters : Submit(t)
SpecConcurrent == Init /\ [][NextConcurrent]_vars

\* One crawl worker on its own, fed by the work queue and without its
\* periodic heartbeats (SpecLiveness has them), in a world where a
\* robots.txt request has any outcome and a page request is answered with
\* a page, with 503 or with 404.
InitCrawler ==
  /\ InitCoordinator
  /\ NormIdle
  /\ env = [urls |-> {}, crawl |-> CrawlUrls, robots |-> RobotsOutcomes,
            responses |-> {Page1, Unavailable, NotFound}]

NextCrawler == Deliver \/ TickCrawl \/ CrawlerStart("w1") \/ Pipeline("w1")
SpecCrawler == InitCrawler /\ [][NextCrawler]_vars

\* One crawl worker fed by the work queue, in a world where robots.txt
\* cannot be fetched and a page request is answered with a page, with 503
\* or with 404, or gets no answer (the connection fails or times out).
InitFetch ==
  /\ InitCoordinator
  /\ NormIdle
  /\ env = [urls |-> {}, crawl |-> {UrlA}, robots |-> {RobotsError},
            responses |-> {Page1, Unavailable, NotFound, NoAnswer}]

NextFetch == Deliver \/ CrawlerStart("w1") \/ Pipeline("w1")
SpecFetch == InitFetch /\ [][NextFetch]_vars

\* One crawl worker fed by the work queue, in a world where a robots.txt
\* request fails, is answered with a status other than 200, with the file
\* "Disallow: /b", "Crawl-delay: 5" or with the file "Crawl-delay: 2", and
\* every page request is answered with a page.  The clock
\* advances at most MaxRobotsTicks times, by a second or by a second less
\* than ROBOTS_TTL.
RobotsSlow == [kind |-> "ok", rules |-> <<>>, delay |-> 2]
RobotsStrict ==
  [kind |-> "ok", rules |-> <<[path |-> <<"/", "b">>, allowance |-> FALSE]>>, delay |-> 5]

TickRobots == Advance(RobotsSteps, MaxRobotsTicks)

InitRobots ==
  /\ InitCoordinator
  /\ NormIdle
  /\ env = [urls |-> {}, crawl |-> CrawlUrls, robots |-> {RobotsError, RobotsMissing, RobotsStrict, RobotsSlow},
            responses |-> {Page1}]

NextRobots == Deliver \/ TickRobots \/ CrawlerStart("w1") \/ Pipeline("w1")
SpecRobots == InitRobots /\ [][NextRobots]_vars

\* One crawl worker fed with the example page's URL, with and without a
\* trailing slash, in a world where robots.txt cannot be fetched and a page
\* request is answered with one of the two pages.
PageUrls == {UrlExampleNorm, UrlExampleNorm \o <<"/">>}

InitLinks ==
  /\ InitCoordinator
  /\ NormIdle
  /\ env = [urls |-> {}, crawl |-> PageUrls, robots |-> {RobotsError},
            responses |-> {Page1, Page2}]

NextLinks == Deliver \/ CrawlerStart("w1") \/ Pipeline("w1")
SpecLinks == InitLinks /\ [][NextLinks]_vars

\* Two crawl workers fed by the work queue, in a world where robots.txt
\* cannot be fetched and every page request is answered with a page.
InitDuplicate ==
  /\ InitCoordinator
  /\ NormIdle
  /\ env = [urls |-> {}, crawl |-> CrawlUrls, robots |-> {RobotsError},
            responses |-> {Page1, Page2}]

NextDuplicate == Deliver \/ \E w \in Workers : CrawlerStart(w) \/ Pipeline(w)
SpecDuplicate == InitDuplicate /\ [][NextDuplicate]_vars

\* The workers' heartbeats and their consumer: the coordinator, started
\* with no seeds, with its heartbeat monitor and health pass, or the
\* dashboard.  A heartbeat the other consumer would take away is one that
\* is not sent.
NextLiveness ==
  \/ dash_monitor.pc = "off" /\ StartThreads
  \/ ~started /\ DashStart
  \/ Monitor
  \/ Health
  \/ Dashboard
  \/ TickLive
  \/ \E w \in Workers : CrawlerStart(w) \/ CrawlerHeartbeat(w)
SpecLiveness == Init /\ [][NextLiveness]_vars

\* One crawl worker with its periodic heartbeats, fed by the work queue, in
\* a world where robots.txt cannot be fetched and a page request is
\* answered with a page or with 503.  The clock advances, at most
\* MaxBeatTicks times, while the worker is at work on an item (a request
\* waits for its answer, fetch_page sleeps for the delay, the upload sleeps
\* between attempts) and while it polls with no heartbeat due: a worker
\* that polls comes by line 238 within one receive_message call.
TickBeat ==
  /\ \A w \in Workers : crawler[w].pc = "poll" => ~HeartbeatDue(w)
  /\ Advance(BeatSteps, MaxBeatTicks)

InitBeat ==
  /\ InitCoordinator
  /\ NormIdle
  /\ env = [urls |-> {}, crawl |-> {UrlA}, robots |-> {RobotsError},
            responses |-> {Page1, Unavailable}]

NextBeat ==
  Deliver \/ TickBeat \/ CrawlerStart("w1") \/ CrawlerHeartbeat("w1") \/ Pipeline("w1")
SpecBeat == InitBeat /\ [][NextBeat]_vars

\* One crawl worker fed by the work queue and interrupted at any point of
\* its loop, in the world of SpecBeat.
NextInterrupt ==
  Deliver \/ CrawlerStart("w1") \/ Pipeline("w1") \/ CrawlerInterrupt("w1")
SpecInterrupt == InitBeat /\ [][NextInterrupt]_vars

\* The coordinator's heartbeat monitor and the dashboard's poll the workers'
\* heartbeat queue at the same time; the workers send their first
\* heartbeats.
NextShared ==
  \/ StartThreads
  \/ DashStart
  \/ Monitor
  \/ DashReceive \/ DashProcess \/ DashCleanup
  \/ \E w \in Workers : CrawlerStart(w)
SpecShared == Init /\ [][NextShared]_vars

\* The coordinator with one seed and one crawl worker, without the
\* worker's periodic heartbeats (SpecLiveness has them), in a world where
\* robots.txt cannot be fetched and a page request is answered with a page
\* or with 404.
InitSystem ==
  /\ InitCoordinator
  /\ NormIdle
  /\ env = [urls |-> {UrlA}, crawl |-> {}, robots |-> {RobotsError},
            responses |-> {Page1, NotFound}]

NextSystem ==
  SubmitSeeds \/ StartThreads \/ Sweep \/ TickSystem \/ CrawlerStart("w1") \/ Pipeline("w1")
SpecSystem == InitSystem /\ [][NextSystem]_vars

\* The coordinator, started with no seeds, with its two heartbeat
\* monitors.  A crawler sends its first heartbeat, an indexer sends
\* heartbeats, and messages that are no heartbeats reach both queues.  The
\* clock advances by the interval of the heartbeats.
TickHeartbeats == Advance({HEARTBEAT_INTERVAL}, MaxLiveTicks)

NextHeartbeats ==
  \/ StartThreads
  \/ Monitor
  \/ IndexerMonitor
  \/ HeartbeatMalformed
  \/ \E i \in Indexers : IndexerHeartbeat(i)
  \/ CrawlerStart("w1")
  \/ TickHeartbeats
SpecHeartbeats == Init /\ [][NextHeartbeats]_vars

\* The coordinator, started with no seeds, with its heartbeat monitor and
\* its health pass, and workers that send their first heartbeat and then
\* stop for good.  The clock advances by a second more than the dashboard's
\* MAX_HEARTBEAT_AGE.
TickExpiry == Advance({MAX_HEARTBEAT_AGE + 1}, MaxLiveTicks)

NextExpiry ==
  \/ StartThreads
  \/ Monitor
  \/ Health
  \/ TickExpiry
  \/ \E w \in Workers : CrawlerStart(w)
SpecExpiry == Init /\ [][NextExpiry]_vars

\* One crawl worker fed by the work queue with the URL http://a/b and with
\* a message that holds no URL, in a world where robots.txt cannot be
\* fetched or disallows /b, a page request is answered with a page or with
\* 404, and the delete_message that ends an item can fail; the queue gives
\* back a message that was not deleted.
InitDelete ==
  /\ InitCoordinator
  /\ NormIdle
  /\ env = [urls |-> {}, crawl |-> {UrlAB, <<>>}, robots |-> {RobotsError, RobotsStrict},
            responses |-> {Page1, NotFound}]

NextDelete ==
  Deliver \/ Redeliver \/ CrawlerStart("w1") \/ Pipeline("w1") \/ CrawlerDeleteFails("w1")
SpecDelete == InitDelete /\ [][NextDelete]_vars

\* The indexer, started again and again, next to one crawl worker that is
\* fed by the work queue, in a world where robots.txt cannot be fetched and
\* every page request is answered with the page "p1".
InitIngest ==
  /\ InitCoordinator
  /\ NormIdle
  /\ env = [urls |-> {}, crawl |-> CrawlUrls, robots |-> {RobotsError},
            responses |-> {Page1}]

NextIngest == Deliver \/ CrawlerStart("w1") \/ Pipeline("w1") \/ Ingest
SpecIngest == InitIngest /\ [][NextIngest]_vars

\* The coordinator with one seed and all its periodic activities, each of
\* which meets errors: the heartbeat receive raises, the health pass finds
\* crawler_status changed under it, the sweep's resend raises.  One worker
\* sends its first heartbeat.
TickErr == Advance(ErrSteps, MaxErrTicks)

NextErrors ==
  \/ SubmitSeeds \/ StartThreads
  \/ Monitor \/ MonitorReceiveFails
  \/ Health
  \/ Sweep
  \/ TickErr
  \/ CrawlerStart("w1")
SpecErrors == InitSystem /\ [][NextErrors]_vars

\* The coordinator with one seed that no worker can complete: the one
\* worker gets no answer to any page request.  The work queue takes every
\* resend.  The clock advances, at most MaxRequeueTicks times, while the
\* sweep sleeps and is not due: the sweep thread runs as soon as its sleep
\* is over.  MasterNode.start submits its seeds and then starts the threads
\* (lines 145-150), each thread's loop goes on for ever.
TickRequeue ==
  /\ started
  /\ sweep.pc = "sleep"
  /\ now < sweep.wake
  /\ Advance(RequeueSteps, MaxRequeueTicks)

InitRequeue ==
  /\ InitCoordinator
  /\ NormIdle
  /\ env = [urls |-> {UrlA}, crawl |-> {}, robots |-> {RobotsError},
            responses |-> {NoAnswer}]

SweepAlways == SweepBegin \/ SweepSkip \/ SweepRequeue \/ SweepEnd

NextRequeue ==
  \/ SubmitSeeds \/ StartThreads
  \/ SweepAlways
  \/ TickRequeue
  \/ CrawlerStart("w1")
  \/ CrawlerReceive("w1")
  \/ CrawlerRobotsCached("w1") \/ CrawlerRobotsFetch("w1")
  \/ CrawlerRequest("w1")
  \/ CrawlerDelete("w1")

SpecRequeue ==
  /\ InitRequeue
  /\ [][NextRequeue]_vars
  /\ WF_vars(SubmitSeeds)
  /\ SF_vars(StartThreads)
  /\ WF_vars(SweepAlways)
  /\ WF_vars(TickRequeue)

(***************************************************************************)
(* Properties                                                              *)
(***************************************************************************)

Range(q) == {q[i] : i \in DOMAIN q}

\* r1 and r2 are the same string but for the letter case of the scheme, the
\* letters before the first ":".
SameButSchemeCase(r1, r2) ==
  /\ Len(r1) = Len(r2)
  /\ \E i \in 2..Len(r1) :
       /\ r1[i] = ":" /\ r2[i] = ":"
       /\ \A j \in 1..(i - 1) : IsAlpha(r1[j]) /\ LowerChar(r1[j]) = LowerChar(r2[j])
       /\ \A j \in (i + 1)..Len(r1) : r1[j] = r2[j]

C2_AtomicTestAndInsert ==
  /\ \A u \in visited_urls : Sent(crawler_queue, u, "submit") <= 1
  /\ stats.total_urls <= Cardinality(visited_urls)

\* The sweep thread's step passes the item u of its snapshot.
SweepPasses(u) ==
  /\ sweep.pc = "scan"
  /\ sweep.todo # <<>>
  /\ Head(sweep.todo) = u
  /\ sweep'.todo = Tail(sweep.todo)

\* The number of messages the step sends for u as a timeout resend.
Resent(u) == Sent(crawler_queue', u, "sweep") - Sent(crawler_queue, u, "sweep")

Crawled(u) ==
  /\ Filename("", u) \in DOMAIN bucket
  /\ Copies(crawler_queue, [body |-> u, origin |-> "submit", state |-> "deleted"]) >= 1

\* C4: once a worker has fetched and uploaded a URL, its WorkItem is Done and
\* the timeout sweep never resends it to the work queue.
C4_DoneNeverResent ==
  [][\A u \in DOMAIN task_status : Crawled(u) => Resent(u) = 0]_vars

PathsOn(b) ==
  {b, b \o <<"/">>, b \o <<"/", "b">>, b \o <<"/", "a", "/", "b">>,
   b \o <<"/", "b", "?", "a">>}

\* The entry worker w caches for the origin of its last robots.txt fetch.
LastRobotsEntry(c) == c.robots_cache[c.robots_logged.base]

\* C6: when the robots.txt fetch for an origin raises an error, the entry
\* cached for the origin has allow_all set; can_fetch returns true for the
\* URL at hand and, while the entry is cached, for every URL of the origin,
\* without another robots.txt fetch.
C6_RobotsErrorAllowsAll ==
  [][\A w \in Workers :
       LET c == crawler[w]
           d == crawler'[w]
           b == base_url(c.url).base
           cached == /\ b \in DOMAIN c.robots_cache
                     /\ now - c.robots_cache[b].timestamp < 3600
       IN /\ (c.pc = "robots" /\ d.pc # "robots" /\ cached) =>
               /\ d.robots_cache = c.robots_cache
               /\ d.robots_logged = c.robots_logged
          /\ (c.pc = "robots" /\ d.pc # "robots"
                /\ d.robots_logged = [base |-> b, kind |-> "error"]) =>
               /\ d.robots_cache[b].parser.allow_all
               /\ ~cached => d.robots_cache[b].timestamp = now
               /\ d.pc = "get"
               /\ d.failed_count = c.failed_count
          /\ d.robots_logged.kind = "error" =>
               \A u \in PathsOn(d.robots_logged.base) :
                 ParserCanFetch(LastRobotsEntry(d).parser, u)
    ]_vars

\* C6's case: robots.txt could not be fetched for the first item; the second
\* item, a URL a robots.txt could disallow, went ahead on the cached entry.
C6_Witness ==
  /\ crawler["w1"].robots_logged.kind = "error"
  /\ crawler["w1"].pc = "get"
  /\ crawler["w1"].url = UrlAB
  /\ LastRobotsEntry(crawler["w1"]).timestamp = 0
  /\ BagSize(crawler_queue) = 2
  /\ \E m \in DOMAIN crawler_queue : m.state = "deleted"

C8_OneObjectPerUrl ==
  /\ \A k1, k2 \in DOMAIN bucket : bucket[k1].Metadata = bucket[k2].Metadata => k1 = k2
  /\ \A k \in DOMAIN bucket : bucket[k].Metadata \in CrawlUrls
  /\ Cardinality(DOMAIN bucket) <= Cardinality(CrawlUrls)

\* C8's case: both workers have uploaded, each a different page, and the
\* bucket holds one object: they ran on the same URL.
C8_Witness ==
  /\ crawler["w1"].uploaded_count = 1
  /\ crawler["w2"].uploaded_count = 1
  /\ crawler["w1"].html = "p1"
  /\ crawler["w2"].html = "p2"
  /\ crawler["w1"].url = crawler["w2"].url
  /\ Cardinality(DOMAIN bucket) = 1

\* C11: link extraction on the page "p1" at "http://example.com/a", whose
\* anchors are href="/b" and href="http://other.com/c", returns exactly
\* {"http://example.com/b"}.
C11_ExampleLinks ==
  \A w \in Workers :
    (crawler[w].pc = "delete" /\ crawler[w].url = UrlExampleNorm
       /\ crawler[w].html = "p1") =>
      crawler[w].links = {HttpPrefix \o <<"e","x","a","m","p","l","e",".","c","o","m","/","b">>}

\* C13: every URL on the work queue was put there by the coordinator: it is
\* in the coordinator's dedup set and has a Queued record in its task
\* tracker; no other component sends crawl work to the queue.
C13_OnlyCoordinatorEnqueues ==
  \A m \in DOMAIN crawler_queue :
    /\ m.origin \in {"submit", "sweep"}
    /\ m.body \in visited_urls
    /\ m.body \in DOMAIN task_status
    /\ task_status[m.body].status = "queued"

\* C14: the dashboard never removes a message from the heartbeat queue: no
\* step of its heartbeat thread changes the heartbeats the queue holds.
C14_DashboardReadOnly ==
  [][dash_monitor' # dash_monitor =>
       {m.body : m \in heartbeat_queue'} = {m.body : m \in heartbeat_queue}]_vars

\* C15: a running worker sends a heartbeat every 60s whatever it does with
\* an item: when it sends one, the one before is at most 60s old.
C15_HeartbeatEvery60s ==
  [][\A w \in Workers :
       (crawler[w].pc # "init"
          /\ crawler'[w].last_heartbeat_time # crawler[w].last_heartbeat_time) =>
         crawler'[w].last_heartbeat_time - crawler[w].last_heartbeat_time <= 60]_vars

\* The number of deleted messages of the work queue q.
DeletedCount(q) == BagSize([m \in {x \in DOMAIN q : x.state = "deleted"} |-> q[m]])

\* The pipeline of the worker with locals c has ended for the item at hand:
\* the message had no URL; or the robots check refused the URL before any
\* page request; or the page request failed for good, with a status that is
\* not retried or with the retries used up; or the page was empty; or the
\* page was fetched and upload_to_s3 and extract_links have returned.
PipelineEnded(c) ==
  \/ c.url = <<>>
  \/ c.history = <<>> /\ c.html = ""
  \/ /\ c.history # <<>>
     /\ c.html = ""
     /\ \/ c.history[Len(c.history)] \notin status_forcelist \cup {0}
        \/ Len(c.history) = 4
  \/ c.html # "" /\ c.links = extract_links(c.html, c.url) /\ c.links # {}

\* C12: a worker deletes a work-queue message only when its pipeline for the
\* message has ended, in success or in a failure that is not retried; never
\* while the robots check or the page request is still to come, nor between
\* two tries of the page request or of the upload.
C12_DeleteAfterPipeline ==
  [][DeletedCount(crawler_queue') # DeletedCount(crawler_queue) =>
       \E w \in Workers :
         /\ crawler[w].pc = "delete"
         /\ crawler[w].message.state = "inflight"
         /\ crawler_queue' = Removed(crawler_queue, crawler[w].message)
         /\ PipelineEnded(crawler[w])
         /\ crawler[w].history = <<>> =>
              \/ crawler[w].url = <<>>
              \/ crawler'[w].failed_count >= 1
    ]_vars

C18_SubmitReturnsAccepted ==
  [][\A t \in Submitters :
       (sub[t].pc = "next" /\ sub'[t].pc = "idle") =>
         add_urls_to_queue_returns(sub[t].accepted)
           = [kind |-> "int", value |-> sub[t].accepted]]_vars

\* The send of u failed during submit: u is in the dedup set, has no task
\* record and is not the URL a caller is about to send.
FailedSend(u) ==
  /\ u \in visited_urls
  /\ u \notin DOMAIN task_status
  /\ \A t \in Submitters : sub[t].url # u

\* C19: when the send to the work queue fails during submit, the URL stays
\* in the dedup set, gets no task record and is not counted; from then on
\* every submit of it is rejected as a duplicate, it never gets a record and
\* no message for it is ever on the work queue.
C19_FailedSendNeverEnqueued ==
  [][/\ \A t \in Submitters :
          (sub[t].pc = "send" /\ sub'[t].pc = "next" /\ crawler_queue' = crawler_queue) =>
            /\ sub[t].url \in visited_urls'
            /\ sub[t].url \notin DOMAIN task_status'
            /\ stats' = stats
     /\ \A u \in visited_urls :
          FailedSend(u) =>
            /\ FailedSend(u)'
            /\ \A m \in DOMAIN crawler_queue' : m.body # u
            /\ \A t \in Submitters :
                 (sub[t].pc = "next" /\ sub[t].urls # <<>>
                    /\ normalize_url(Head(sub[t].urls)) = u /\ sub'[t] # sub[t]) =>
                   /\ sub'[t].pc = "next"
                   /\ sub'[t].accepted = sub[t].accepted
     /\ stats'.total_urls = Cardinality(DOMAIN task_status')
    ]_vars

\* C19's case: the send of "http://a" failed; it was submitted again and
\* rejected, and a sweep pass has run more than TASK_TIMEOUT later.
C19_Witness ==
  /\ FailedSend(UrlA)
  /\ sub["main"].pc = "idle"
  /\ \E r \in submit_log : r.url = UrlA /\ ~r.accepted
  /\ started
  /\ sweep.pc = "sleep"
  /\ sweep.wake > TASK_TIMEOUT + SWEEP_INTERVAL

\* C20: the coordinator sends a URL to the work queue in two cases only:
\* when submit has just accepted it for the first time, and when the sweep
\* finds its record Queued and more than TASK_TIMEOUT (180s) old.  Such a
\* resend sets the record's timestamp to the current time and adds exactly
\* 1 to the requeued counter, which changes in no other step; no step
\* removes a message, and an item at most 180s old is never resent.
C20_SendsOnlyOnAcceptOrTimeout ==
  [][/\ crawler_queue' # crawler_queue =>
          \/ \E t \in Submitters :
               /\ sub[t].pc = "send"
               /\ sub[t].url \in visited_urls
               /\ sub[t].url \notin DOMAIN task_status
               /\ \A m \in DOMAIN crawler_queue : m.body # sub[t].url
               /\ crawler_queue' = SendMessage(crawler_queue, sub[t].url, "submit")
               /\ task_status'[sub[t].url] = [timestamp |-> now, status |-> "queued"]
               /\ stats'.requeued = stats.requeued
          \/ /\ sweep.pc = "scan"
             /\ sweep.todo # <<>>
             /\ \E u \in {Head(sweep.todo)} :
                  /\ task_status[u].status = "queued"
                  /\ sweep.now - task_status[u].timestamp > 180
                  /\ crawler_queue' = SendMessage(crawler_queue, u, "sweep")
                  /\ task_status' = [task_status EXCEPT ![u].timestamp = now]
                  /\ stats'.requeued = stats.requeued + 1
     /\ stats'.requeued # stats.requeued => crawler_queue' # crawler_queue
     /\ \A u \in DOMAIN task_status :
          (u \in DOMAIN task_status' /\ task_status'[u] # task_status[u]) =>
            Sent(crawler_queue', u, "sweep") = Sent(crawler_queue, u, "sweep") + 1
    ]_vars

\* C20's case: an item was sent by submit and resent once by the sweep; the
\* pass that came when the resent item was exactly TASK_TIMEOUT old has left
\* it alone.
C20_Witness ==
  /\ stats.requeued = 1
  /\ sweep.pc = "sleep"
  /\ \E u \in DOMAIN task_status :
       /\ Sent(crawler_queue, u, "submit") = 1
       /\ Sent(crawler_queue, u, "sweep") = 1
       /\ task_status[u].timestamp > TASK_TIMEOUT
       /\ sweep.wake = task_status[u].timestamp + TASK_TIMEOUT + SWEEP_INTERVAL

C22_SharedMapsExclusive ==
  [][health.pc = "loop" => crawler_status' = crawler_status]_vars
\* C23: a URL that robots.txt disallows for user-agent * ends the pipeline
\* for the item with no request of the URL and without a change of the
\* worker's failed counter.
C23_DisallowNotCounted ==
  [][\A w \in Workers :
       LET c == crawler[w]
           d == crawler'[w]
           b == base_url(c.url).base
       IN (/\ c.pc = "robots" /\ d.pc # "robots"
           /\ ~base_url(c.url).err
           /\ ~ParserCanFetch(d.robots_cache[b].parser, c.url)) =>
            /\ d.pc = "delete"
            /\ d.history = <<>>
            /\ d.html = ""
            /\ d.failed_count = c.failed_count]_vars
\* The status of the last answer to the page request of the worker with
\* locals c.
LastStatus(c) == c.history[Len(c.history)]

\* C24: a fetch that fails for good (no answer or a status of the force
\* list with the retries used up, or a status that is not retried) adds
\* exactly 1 to the worker's failed counter for the item; the item is not
\* counted as crawled, nothing is uploaded and no links are extracted.
C24_FetchFailureCountedOnce ==
  [][\A w \in Workers :
       LET c == crawler[w]
           d == crawler'[w]
       IN /\ (c.pc = "robots" /\ d.pc = "get") => d.failed_count = c.failed_count
          /\ (c.pc = "get" /\ d # c) =>
               /\ Len(d.history) = Len(c.history) + 1
               /\ (LastStatus(d) \in {429, 500, 502, 503, 504, 0} /\ c.retries > 0) =>
                    /\ d.pc = "get"
                    /\ d.failed_count = c.failed_count
               /\ (\/ LastStatus(d) \in {429, 500, 502, 503, 504, 0} /\ c.retries = 0
                   \/ LastStatus(d) \notin {429, 500, 502, 503, 504, 0, 200}) =>
                    /\ d.pc = "delete"
                    /\ d.html = ""
                    /\ d.failed_count = c.failed_count + 1
               /\ d.crawled_count = IF d.html # "" THEN c.crawled_count + 1
                                    ELSE c.crawled_count
               /\ d.uploaded_count = c.uploaded_count
               /\ d.links = {}
               /\ bucket' = bucket
          /\ (c.pc = "delete" /\ d # c) =>
               /\ d.pc = "poll"
               /\ d.failed_count = c.failed_count
               /\ d.crawled_count = c.crawled_count
               /\ d.uploaded_count = c.uploaded_count
               /\ bucket' = bucket]_vars

\* C24's case: two items have failed for good, one with the retries used
\* up on no answer and 503, one on a 404; each was counted once.
C24_Witness ==
  /\ crawler["w1"].pc = "delete"
  /\ crawler["w1"].history = <<404>>
  /\ crawler["w1"].failed_count = 2
  /\ crawler["w1"].crawled_count = 0
  /\ bucket = <<>>
  /\ \E m \in DOMAIN crawler_queue : m.state = "deleted"
\* C25: every fetch ends: each answer with a status of the force list uses
\* up one of the MAX_RETRIES retries, so a URL whose server keeps answering
\* so is requested at most 4 times; after the fourth such answer the fetch
\* has given up and the item is counted as failed.
C25_FetchEnds ==
  \A w \in Workers :
    LET c == crawler[w]
    IN /\ c.retries \in 0..3
       /\ Len(c.history) <= 4
       /\ c.pc = "get" =>
            /\ Len(c.history) + c.retries = 3
            /\ \A i \in DOMAIN c.history : c.history[i] \in {429, 500, 502, 503, 504, 0}
       /\ (Len(c.history) = 4
             /\ \A i \in DOMAIN c.history : c.history[i] \in {429, 500, 502, 503, 504}) =>
            /\ c.pc = "delete"
            /\ c.html = ""
            /\ c.failed_count >= 1
            /\ c.crawled_count = 0 => bucket = <<>>

\* C25's case: the server has answered 503 four times and the worker has
\* given up on the item.
C25_Witness ==
  /\ crawler["w1"].history = <<503, 503, 503, 503>>
  /\ crawler["w1"].pc = "delete"
  /\ crawler["w1"].failed_count = 1
\* C26: a worker's crawl delay never decreases.  A can_fetch call that
\* allows the URL raises the delay to the Crawl-delay of the origin's
\* robots.txt when there is one and it is larger than the delay, and leaves
\* the delay as it is otherwise; nothing else changes the delay.
C26_DelayNeverDecreases ==
  [][\A w \in Workers :
       LET c == crawler[w]
           d == crawler'[w]
           directive == ParserCrawlDelay(d.robots_cache[base_url(c.url).base].parser)
       IN /\ d.delay >= c.delay
          /\ d.delay # c.delay => c.pc = "robots" /\ d.pc = "get"
          /\ (c.pc = "robots" /\ d.pc = "get") =>
               d.delay = IF directive # 0 /\ directive > c.delay THEN directive
                         ELSE c.delay
          /\ (c.pc = "robots" /\ d.pc = "delete") => d.delay = c.delay]_vars

\* C26's case: the delay was raised to 5 by one robots.txt, and a later
\* can_fetch call on a robots.txt with Crawl-delay 2 has left it at 5.
C26_Witness ==
  /\ crawler["w1"].delay = 5
  /\ crawler["w1"].pc = "get"
  /\ crawler["w1"].robots_cache[base_url(crawler["w1"].url).base].parser.delay = 2
  /\ crawler["w1"].robots_cache[base_url(crawler["w1"].url).base].timestamp = now
\* C27: a robots lookup for an origin whose cached entry is younger than
\* 3600s uses the entry and fetches nothing: the cache stays as it is.  The
\* first lookup made when the entry is 3600s old or older (or when there is
\* none) fetches robots.txt and replaces the entry as a whole, parser and
\* time, the time being the current time.
C27_RobotsCacheTtl ==
  [][\A w \in Workers :
       LET c == crawler[w]
           d == crawler'[w]
           b == base_url(c.url).base
           fresh == /\ b \in DOMAIN c.robots_cache
                    /\ now - c.robots_cache[b].timestamp < 3600
       IN (c.pc = "robots" /\ d.pc # "robots" /\ ~base_url(c.url).err) =>
            /\ fresh =>
                 /\ d.robots_cache = c.robots_cache
                 /\ d.robots_logged = c.robots_logged
                 /\ d.pc = "get" <=> ParserCanFetch(c.robots_cache[b].parser, c.url)
            /\ ~fresh =>
                 /\ DOMAIN d.robots_cache = DOMAIN c.robots_cache \cup {b}
                 /\ \A o \in DOMAIN c.robots_cache \ {b} :
                      d.robots_cache[o] = c.robots_cache[o]
                 /\ \E outcome \in env.robots :
                      /\ d.robots_cache[b] = [parser |-> ParserFor(outcome), timestamp |-> now]
                      /\ d.robots_logged = [base |-> b, kind |-> outcome.kind]
                 /\ d.pc = "get" <=> ParserCanFetch(d.robots_cache[b].parser, c.url)]_vars

\* C27's case: the entry fetched at time 0, with Crawl-delay 5, has been
\* replaced by one with Crawl-delay 2 at the lookup made at time 3600.
C27_Witness ==
  /\ now = 3600
  /\ crawler["w1"].pc = "get"
  /\ crawler["w1"].delay = 5
  /\ crawler["w1"].robots_cache[base_url(crawler["w1"].url).base]
       = [parser |-> ParserFor(RobotsSlow), timestamp |-> 3600]
  /\ Cardinality({m \in DOMAIN crawler_queue : m.state = "deleted"}) >= 1
\* C28: a robots.txt fetch that fails or is answered with a status other
\* than 200 caches an allow-all entry for the origin, with the time of the
\* fetch; the URL at hand is allowed and not counted as failed.  Lookups
\* for the origin made while that entry is younger than 3600s fetch
\* nothing, and can_fetch allows every URL of the origin on it.
C28_FailOpenCached ==
  [][\A w \in Workers :
       LET c == crawler[w]
           d == crawler'[w]
           b == base_url(c.url).base
           fresh == /\ b \in DOMAIN c.robots_cache
                    /\ now - c.robots_cache[b].timestamp < 3600
       IN (c.pc = "robots" /\ d.pc # "robots" /\ ~base_url(c.url).err) =>
            /\ (~fresh /\ d.robots_logged.kind \in {"error", "status"}) =>
                 /\ d.robots_logged.base = b
                 /\ d.robots_cache[b].parser.allow_all
                 /\ d.robots_cache[b].timestamp = now
                 /\ d.pc = "get"
                 /\ d.failed_count = c.failed_count
            /\ (fresh /\ c.robots_cache[b].parser.allow_all) =>
                 /\ d.robots_cache = c.robots_cache
                 /\ d.robots_logged = c.robots_logged
                 /\ d.pc = "get"
                 /\ d.failed_count = c.failed_count
                 /\ d.delay = c.delay
            /\ d.robots_cache[b].parser.allow_all =>
                 \A u \in PathsOn(b) : ParserCanFetch(d.robots_cache[b].parser, u)]_vars

\* C28's case: robots.txt was answered with a status other than 200 at
\* time 0; 3599s later the entry is still used, for a URL that a
\* robots.txt of this world disallows.
C28_Witness ==
  /\ now = 3599
  /\ crawler["w1"].pc = "get"
  /\ crawler["w1"].url = UrlAB
  /\ crawler["w1"].robots_logged.kind = "status"
  /\ crawler["w1"].robots_cache[base_url(UrlAB).base]
       = [parser |-> ParserFor(RobotsMissing), timestamp |-> 0]
  /\ Cardinality({m \in DOMAIN crawler_queue : m.state = "deleted"}) >= 1
\* The bodies of the messages of the queue q.
Bodies(q) == {m.body : m \in q}

C30_IndexersTracked ==
  [][\A b \in indexer.batch :
       (indexer.pc = "proc" /\ indexer'.batch = indexer.batch \ {b}
          /\ Parses(b, "indexer_id")) =>
         /\ b.indexer_id \in DOMAIN crawler_status'
         /\ crawler_status'[b.indexer_id] = now]_vars
\* C31: a worker's record is removed from the coordinator's liveness map
\* once the worker has been silent for more than 300s: the health pass
\* counts no worker as failed whose last heartbeat is more than 300s old
\* at the pass.
C31_SilentWorkerForgotten ==
  [][(health.pc = "loop" /\ health'.pc = "sleep" /\ Len(crawler_order) = health.size) =>
       \A cid \in health.flagged : health.now - crawler_status[cid] <= 300]_vars
\* C32: when the upload of a fetched page fails for good, the worker's
\* failed counter goes up by exactly 1, uploaded and crawled stay as they
\* are, and the links of the page are extracted all the same; the item then
\* ends like any other, with the deletion of its message.
C32_UploadFailureGoesOn ==
  [][\A w \in Workers :
       LET c == crawler[w]
           d == crawler'[w]
       IN /\ (c.pc = "upload" /\ d.pc = "delete"
                /\ Filename(c.html, c.url) \notin DOMAIN bucket') =>
               /\ d.failed_count = c.failed_count + 1
               /\ d.uploaded_count = c.uploaded_count
               /\ d.crawled_count = c.crawled_count
               /\ d.links = extract_links(c.html, c.url)
               /\ d.html = c.html
               /\ c.attempt = 2
          /\ (c.pc = "upload" /\ d # c) => d.pc \in {"upload", "delete"}
          /\ (c.pc = "upload" /\ d.pc = "upload" /\ d # c) =>
               /\ d.failed_count = c.failed_count
               /\ d.uploaded_count = c.uploaded_count
               /\ d.attempt = c.attempt + 1
          /\ c.pc = "delete" => ENABLED CrawlerDelete(w)]_vars

\* C32's case: the three put_object calls for the page "p1" have failed;
\* the page's links are extracted, the failure is counted once.
C32_Witness ==
  /\ crawler["w1"].pc = "delete"
  /\ crawler["w1"].html = "p1"
  /\ crawler["w1"].attempt = 2
  /\ crawler["w1"].failed_count = 1
  /\ crawler["w1"].uploaded_count = 0
  /\ crawler["w1"].crawled_count = 1
  /\ crawler["w1"].links # {}
  /\ bucket = <<>>
\* C33: a storage operation that fails for good shows as an increment of a
\* failure counter: the upload that failed MAX_RETRIES times adds 1 to the
\* worker's failed counter, and so does the heartbeat none of whose sends
\* reached the queue; a send to the work queue that failed, from
\* add_urls_to_queue or from the sweep, raises a counter of the
\* coordinator.
C33_StorageFailureCounted ==
  [][/\ \A w \in Workers :
          LET c == crawler[w]
              d == crawler'[w]
          IN /\ (c.pc = "upload" /\ d.pc = "delete" /\ d.uploaded_count = c.uploaded_count) =>
                  (c.attempt = MAX_RETRIES - 1 /\ d.failed_count = c.failed_count + 1)
             /\ (c.pc = "init" /\ d.pc = "poll" /\ heartbeat_queue' = heartbeat_queue) =>
                  d.failed_count = c.failed_count + 1
     /\ (sub["main"].pc = "send" /\ sub'["main"].pc = "next"
           /\ crawler_queue' = crawler_queue) => stats' # stats
     /\ (sweep.pc = "scan" /\ sweep.todo # <<>> /\ sweep'.todo = Tail(sweep.todo)
           /\ IsStale(task_status[Head(sweep.todo)], sweep.now)
           /\ crawler_queue' = crawler_queue) => stats' # stats]_vars
\* C34: a record of task_status is never deleted: a URL that has a record
\* has one after every step of the coordinator and of the workers, its
\* status is "queued" as before and its timestamp is no older than before;
\* the order in which the records were made is kept.
C34_TaskRecordsKept ==
  [][/\ \A u \in DOMAIN task_status :
          /\ u \in DOMAIN task_status'
          /\ task_status'[u].status = task_status[u].status
          /\ task_status'[u].timestamp >= task_status[u].timestamp
     /\ SubSeq(task_order', 1, Len(task_order)) = task_order]_vars

\* C34's case: the seed has its record, the sweep has sent it again, a
\* worker has handled both messages to the end, and the record is there.
C34_Witness ==
  /\ UrlA \in DOMAIN task_status
  /\ stats.requeued >= 1
  /\ crawler["w1"].pc = "poll"
  /\ crawler["w1"].crawled_count + crawler["w1"].failed_count >= 2
\* C35: a message a worker has received is deleted when the worker ends
\* the item, on whatever path the item took, and the work queue never makes
\* a message visible a second time: a visible message is a message newly
\* sent.
C35_ReceivedMessageDeleted ==
  [][/\ \A w \in Workers :
          (crawler[w].pc = "delete" /\ crawler'[w].pc = "poll") =>
            Copies(crawler_queue', [crawler[w].message EXCEPT !.state = "deleted"])
              = Copies(crawler_queue, [crawler[w].message EXCEPT !.state = "deleted"]) + 1
     /\ \A m \in DOMAIN crawler_queue' :
          (m.state = "visible" /\ Copies(crawler_queue', m) > Copies(crawler_queue, m)) =>
            BagSize(crawler_queue') = BagSize(crawler_queue) + 1]_vars
\* C36: when the sweep's resend of a stale item fails, the item's record
\* and the counters stay as they are, the pass goes on with the rest of its
\* snapshot, and the item is still stale; every pass starts from the whole
\* task map, so the next pass comes to the item again and can resend it.
C36_FailedResendTriedAgain ==
  [][/\ (sweep.pc = "scan" /\ sweep' # sweep /\ sweep.todo # <<>>
           /\ IsStale(task_status[Head(sweep.todo)], sweep.now)
           /\ crawler_queue' = crawler_queue) =>
          /\ task_status' = task_status
          /\ stats' = stats
          /\ sweep' = [sweep EXCEPT !.todo = Tail(sweep.todo)]
          /\ IsStale(task_status'[Head(sweep.todo)], now')
          /\ \E i \in 1..Len(task_order') : task_order'[i] = Head(sweep.todo)
     /\ (sweep.pc = "sleep" /\ sweep'.pc = "scan") =>
          (sweep'.todo = task_order /\ sweep'.now = now)
     /\ (sweep.pc = "scan" /\ sweep.todo # <<>>
           /\ IsStale(task_status[Head(sweep.todo)], sweep.now)) => ENABLED SweepRequeue]_vars

\* C36's case: a pass has come to its end, and an item it looked at is
\* stale and was not resent: its resend failed.
C36_Witness ==
  /\ sweep.pc = "scan"
  /\ sweep.todo = <<>>
  /\ stats.requeued = 0
  /\ \E u \in DOMAIN task_status : IsStale(task_status[u], sweep.now)

\* C37: a worker never counts more uploads than crawled pages, none of its
\* three counters ever decreases, and of two heartbeats of one worker the
\* later one carries counters that are no smaller.
C37_CountersMonotonic ==
  [][/\ \A w \in Workers :
          /\ crawler'[w].uploaded_count <= crawler'[w].crawled_count
          /\ crawler'[w].crawled_count >= crawler[w].crawled_count
          /\ crawler'[w].uploaded_count >= crawler[w].uploaded_count
          /\ crawler'[w].failed_count >= crawler[w].failed_count
     /\ \A m1, m2 \in heartbeat_queue' :
          (m1.body.crawler_id = m2.body.crawler_id
             /\ m1.body.timestamp <= m2.body.timestamp) =>
            /\ m1.body.crawled <= m2.body.crawled
            /\ m1.body.uploaded <= m2.body.uploaded
            /\ m1.body.failed <= m2.body.failed]_vars

\* C37's case: the worker has crawled a page whose upload failed, and two of
\* its heartbeats are in the queue, from before the page and from after it.
C37_Witness ==
  /\ crawler["w1"].crawled_count = 1
  /\ crawler["w1"].uploaded_count = 0
  /\ crawler["w1"].failed_count = 1
  /\ \E m1, m2 \in heartbeat_queue :
       /\ m1.body.timestamp < m2.body.timestamp
       /\ m1.body.crawled = 0
       /\ m2.body.crawled = 1
       /\ m2.body.uploaded = 0
       /\ m2.body.failed = 1
\* C38: with one caller of add_urls_to_queue at a time, in every state of
\* the coordinator every URL that has a task record is in visited_urls,
\* total_urls is the number of task records, and requeued is the number of
\* messages the sweep has put on the work queue.
C38_CoordinatorCounts ==
  /\ DOMAIN task_status \subseteq visited_urls
  /\ stats.total_urls = Cardinality(DOMAIN task_status)
  /\ stats.requeued =
       BagSize([m \in {x \in DOMAIN crawler_queue : x.origin = "sweep"} |-> crawler_queue[m]])
  /\ stats.total_urls =
       BagSize([m \in {x \in DOMAIN crawler_queue : x.origin = "submit"} |-> crawler_queue[m]])

\* C38's case: a submit whose send failed has left a URL without a record,
\* another URL has its record and the sweep has sent it again.
C38_Witness ==
  /\ visited_urls \ DOMAIN task_status # {}
  /\ stats.total_urls = 1
  /\ stats.requeued >= 1
\* C39: the coordinator's normalize_url and the user client's normalize_url
\* return the same string for every input.
C39_NormalizersAgree == norm.pc = "done" => norm.user = norm.once
\* C40: between the runs of the indexer, every key of the indexed-keys log
\* is the key of an object whose document is in the committed index.
C40_LoggedOnlyIfCommitted ==
  ingest.pc = "idle" =>
    \A key \in ingest.log :
      key \in DOMAIN bucket /\ bucket[key].Metadata \in DOMAIN ingest.index
\* C16: an interrupt never cuts the item in flight short: when the worker
\* leaves its loop it has no item at hand, or the pipeline of the item at
\* hand has ended.
C16_InterruptFinishesItem ==
  [][\A w \in Workers :
       (crawler[w].pc # "exit" /\ crawler'[w].pc = "exit") =>
         \/ crawler[w].pc = "poll"
         \/ crawler[w].pc = "delete" /\ PipelineEnded(crawler[w])]_vars

\* C9: normalize_url is idempotent: normalizing a normalized URL returns the
\* same string, for every input.
C9_Idempotent == norm.pc \in {"twice", "done"} => norm.twice = norm.once

\* C10: submitting the scheme-less "example.com/a" and nothing else gives the
\* dedup key "http://example.com/a" and, once the queue send has succeeded,
\* exactly one WorkItem, Queued under that key, sent once.
C10_ExampleSubmit ==
  (submit_log # {} /\ \A e \in submit_log : e.raw = UrlExample) =>
    /\ \A e \in submit_log : e.url = UrlExampleNorm
    /\ visited_urls \subseteq {UrlExampleNorm}
    /\ DOMAIN task_status \subseteq {UrlExampleNorm}
    /\ Sent(crawler_queue, UrlExampleNorm, "submit") <= 1
    /\ Sent(crawler_queue, UrlExampleNorm, "submit") = 1 =>
         /\ DOMAIN task_status = {UrlExampleNorm}
         /\ task_status[UrlExampleNorm].status = "queued"

\* C10's case: the submit of "example.com/a" is over and its send succeeded.
C10_Witness ==
  /\ sub["main"].pc = "idle"
  /\ submit_log = {[raw |-> UrlExample, url |-> UrlExampleNorm, accepted |-> TRUE]}
  /\ DOMAIN task_status = {UrlExampleNorm}
  /\ stats.total_urls = 1

====
